---- MODULE Spec2Model ----
(***************************************************************************)
(* Hybrid-Agent-Planner: the execution controller (core/loop.py), the plan *)
(* classifier (modules/decision.py) and the historical index               *)
(* (modules/historical_index.py).                                          *)
(*                                                                         *)
(* Text is a sequence of tokens.  A token is one character (queries) or an *)
(* indivisible piece of text: a protocol marker, a word, a bracketed       *)
(* diagnostic.  The string operations of the source (strip, startswith,    *)
(* split, lower, the regular expressions) are computed on these sequences. *)
(***************************************************************************)
EXTENDS Integers, Sequences, FiniteSets, TLC

(***************************************************************************)
(* Tokens                                                                  *)
(***************************************************************************)
NL    == "\\n"
SP    == " "
FENCE == "<code fence>"
PY    == "python"
FA    == "FINAL_ANSWER:"
FPR   == "FURTHER_PROCESSING_REQUIRED:"
SOLVE == "def solve("
ASYNC == "async"
ERR   == "[sandbox error:"
X     == "x"

\* Python's None, and a sandbox result that is not a str.
NoneText == << "<None>" >>
NonStr   == << "<not a str>" >>

IsSpace(t) == t \in {NL, SP}

\* s[i..j], empty when j < i
Slice(s, i, j) == IF j < i THEN << >> ELSE SubSeq(s, i, j)

\* s[:n]
Prefix(s, n) == Slice(s, 1, IF n < Len(s) THEN n ELSE Len(s))

\* A run of 2994 characters without whitespace, written as one piece
FILLER == "<2994 x>"

\* The number of characters of a piece
chars(t) ==
    CASE t = FILLER -> 2994
      [] t \in {"gmail.com", "GMAIL.COM"} -> 9
      [] t = "PowerShell" -> 10
      [] t = "password" -> 8
      [] t \in {"data", "more", "tail"} -> 4
      [] t = "-rf" -> 3
      [] t \in {"hi", "rm"} -> 2
      [] OTHER -> 1

\* len(text)
RECURSIVE len(_)
len(s) == IF s = << >> THEN 0 ELSE chars(Head(s)) + len(Tail(s))

\* The first n characters of a piece longer than that
cut(t, n) == "<first " \o ToString(n) \o " of " \o t \o ">"

\* text[:n], n counted in characters
RECURSIVE first_chars(_, _)
first_chars(s, n) ==
    IF s = << >> \/ n <= 0 THEN << >>
    ELSE IF chars(Head(s)) <= n THEN << Head(s) >> \o first_chars(Tail(s), n - chars(Head(s)))
    ELSE << cut(Head(s), n) >>

\* str.lstrip() / str.rstrip() / str.strip()
RECURSIVE lstrip(_)
lstrip(s) == IF s # << >> /\ IsSpace(Head(s)) THEN lstrip(Tail(s)) ELSE s

RECURSIVE rstrip(_)
rstrip(s) ==
    IF s # << >> /\ IsSpace(s[Len(s)]) THEN rstrip(Slice(s, 1, Len(s) - 1)) ELSE s

strip(s) == rstrip(lstrip(s))

\* str.strip of the backtick character
RECURSIVE strip_backticks(_)
strip_backticks(s) ==
    IF s # << >> /\ Head(s) = FENCE THEN strip_backticks(Tail(s))
    ELSE IF s # << >> /\ s[Len(s)] = FENCE THEN strip_backticks(Slice(s, 1, Len(s) - 1))
    ELSE s

\* str.startswith(marker), marker one token
startswith(s, marker) == s # << >> /\ Head(s) = marker

\* marker in s
contains(s, marker) == \E i \in 1..Len(s) : s[i] = marker

\* ^ under re.MULTILINE
LineStart(s, i) == i = 1 \/ s[i - 1] = NL

AllSpace(s, i, j) == \A k \in i..j : IsSpace(s[k])

\* The end of the line that holds position j: `.*$` stops before the newline.
LineEnd(s, j) ==
    IF \E k \in j..Len(s) : s[k] = NL
    THEN (CHOOSE k \in j..Len(s) : s[k] = NL /\ \A m \in j..(k - 1) : s[m] # NL) - 1
    ELSE Len(s)

(***************************************************************************)
(* modules/decision.py: generate_plan                                      *)
(***************************************************************************)
\* re.search(r"^\s*(async\s+)?def\s+solve\s*\(", s, re.MULTILINE)
SolveSignatureAt(s, i) ==
    /\ LineStart(s, i)
    /\ \E j \in i..Len(s) :
          /\ AllSpace(s, i, j - 1)
          /\ \/ s[j] = SOLVE
             \/ /\ s[j] = ASYNC
                /\ \E k \in (j + 2)..Len(s) : AllSpace(s, j + 1, k - 1) /\ s[k] = SOLVE

has_solve(s) == \E i \in 1..Len(s) : SolveSignatureAt(s, i)

\* re.search(r"^\s*(<marker>.*)$", s, re.MULTILINE): the positions of the marker
\* that a match can start its group at.
MarkerLineAt(s, marker, j) ==
    /\ s[j] = marker
    /\ \E i \in 1..j : LineStart(s, i) /\ AllSpace(s, i, j - 1)

HasMarkerLine(s, marker) == \E j \in 1..Len(s) : MarkerLineAt(s, marker, j)

\* group(1).strip() of the leftmost match
FirstMarkerLine(s, marker) ==
    LET j == CHOOSE j \in 1..Len(s) :
                 /\ MarkerLineAt(s, marker, j)
                 /\ \A m \in 1..(j - 1) : ~MarkerLineAt(s, marker, m)
    IN  strip(Slice(s, j, LineEnd(s, j)))

COULD_NOT_GENERATE == << FA, SP, "[Could not generate valid solve()]" >>
UNKNOWN_ANSWER     == << FA, SP, "[unknown]" >>

\* lines 76-82: the fences and the language tag are removed first
strip_fences(raw) ==
    IF startswith(raw, FENCE)
    THEN LET r == strip(strip_backticks(raw))
         IN  IF startswith(r, PY) THEN strip(Tail(r)) ELSE r
    ELSE raw

\* lines 89-113, on the text the completion call returned
classify_plan(text) ==
    LET raw == strip_fences(strip(text))
    IN  IF HasMarkerLine(raw, FA) /\ ~has_solve(raw) THEN FirstMarkerLine(raw, FA)
        ELSE IF HasMarkerLine(raw, FPR) /\ ~has_solve(raw) THEN FirstMarkerLine(raw, FPR)
        ELSE IF has_solve(raw) THEN raw
        ELSE COULD_NOT_GENERATE

\* The handler returning the diagnostic without its marker
generate_plan_bare_unknown(completion) ==
    IF completion = NoneText THEN << "[unknown]" >> ELSE classify_plan(completion)

\* The completion call either returns a text or raises (completion = NoneText).
generate_plan(completion) ==
    IF completion = NoneText THEN UNKNOWN_ANSWER ELSE classify_plan(completion)

(***************************************************************************)
(* modules/historical_index.py: text normalization and similarity          *)
(***************************************************************************)
\* Query text is written character by character.
Letters == {"a", "b", "c", "d"}
Capitals == {"B"}

\* str.lower() on one token
lower_token(t) ==
    CASE t = "B" -> "b"
      [] t = "[Unknown]" -> "[unknown]"
      [] t = "[Max steps reached]" -> "[max steps reached]"
      [] t = "[Could not generate valid solve()]" -> "[could not generate valid solve()]"
      [] t = "[Unexpected result]" -> "[unexpected result]"
      [] t = FA -> "final_answer:"
      [] OTHER -> t

lower(s) == [i \in 1..Len(s) |-> lower_token(s[i])]

\* pat in t, for a lowercased token t: the words a token is made of
token_has(t, pat) ==
    << t, pat >> \in { << "[unknown]", "unknown" >>,
                       << "[max steps reached]", "max steps reached" >>,
                       << "[could not generate valid solve()]", "could not generate" >>,
                       << "[unexpected result]", "unexpected" >> }

has_substring(s, pat) == \E i \in 1..Len(s) : token_has(s[i], pat)

\* _STOPWORDS, the ones that can be written with Letters
_STOPWORDS == { << "a" >> }

\* re.findall(r"[a-z0-9]+", text): the maximal runs of letters, in order
RECURSIVE findall_words(_, _)
findall_words(s, word) ==
    IF s = << >> THEN (IF word = << >> THEN << >> ELSE << word >>)
    ELSE IF Head(s) \in Letters THEN findall_words(Tail(s), Append(word, Head(s)))
    ELSE (IF word = << >> THEN << >> ELSE << word >>) \o findall_words(Tail(s), << >>)

_normalize_text(text) ==
    SelectSeq(findall_words(lower(text), << >>), LAMBDA w : w \notin _STOPWORDS)

\* re.sub(r"\s+", " ", text)
RECURSIVE collapse_spaces(_)
collapse_spaces(s) ==
    IF s = << >> THEN << >>
    ELSE IF IsSpace(Head(s))
         THEN << SP >> \o collapse_spaces(lstrip(s))
         ELSE << Head(s) >> \o collapse_spaces(Tail(s))

_normalize_for_similarity(text) == collapse_spaces(strip(lower(text)))

\* difflib.SequenceMatcher.find_longest_match on whole sequences: the longest
\* common block, the earliest in a and then the earliest in b among the longest.
BlockAt(a, b, i, j, k) ==
    /\ i + k - 1 <= Len(a)
    /\ j + k - 1 <= Len(b)
    /\ \A m \in 0..(k - 1) : a[i + m] = b[j + m]

LongestBlock(a, b) ==
    LET Blocks == { t \in (1..Len(a)) \X (1..Len(b)) \X (1..Len(a)) :
                       BlockAt(a, b, t[1], t[2], t[3]) }
    IN  IF Blocks = {} THEN << 1, 1, 0 >>
        ELSE CHOOSE t \in Blocks :
               \A u \in Blocks :
                  \/ t[3] > u[3]
                  \/ t[3] = u[3] /\ t[1] < u[1]
                  \/ t[3] = u[3] /\ t[1] = u[1] /\ t[2] <= u[2]

\* The matched characters of get_matching_blocks: the longest block, then the
\* same to its left and to its right.
RECURSIVE matched_chars(_, _)
matched_chars(a, b) ==
    IF a = << >> \/ b = << >> THEN 0
    ELSE LET t == LongestBlock(a, b)
             i == t[1]
             j == t[2]
             k == t[3]
         IN  IF k = 0 THEN 0
             ELSE k + matched_chars(Slice(a, 1, i - 1), Slice(b, 1, j - 1))
                    + matched_chars(Slice(a, i + k, Len(a)), Slice(b, j + k, Len(b)))

\* SequenceMatcher.ratio() = 2.0 * matches / length, 1.0 when both are empty,
\* kept as the fraction << numerator, denominator >>.
ratio(a, b) ==
    IF Len(a) + Len(b) = 0 THEN << 1, 1 >>
    ELSE << 2 * matched_chars(a, b), Len(a) + Len(b) >>

_string_similarity(a, b) ==
    ratio(_normalize_for_similarity(a), _normalize_for_similarity(b))

\* p > q and p >= q on fractions with positive denominators
FracGt(p, q) == p[1] * q[2] > q[1] * p[2]
FracGe(p, q) == p[1] * q[2] >= q[1] * p[2]

(***************************************************************************)
(* Session transcript (the memory file) and the index document             *)
(***************************************************************************)
MARKER == "Started new session with input:"
AT     == " at "
STAMP  == "2025-11-28T20:07:31"

\* One event of the transcript, with the fields mining reads; a field the event
\* does not have is NoneText (texts), "" (tool_name) or << >> (tags).
Event(type, text, tool_name, success, final_answer, result, tags) ==
    [type |-> type, text |-> text, tool_name |-> tool_name, success |-> success,
     final_answer |-> final_answer, result |-> result, tags |-> tags]

RunStart(query) ==
    Event("run_metadata", << MARKER, SP >> \o query \o << AT, STAMP >>,
          "", FALSE, NoneText, NoneText, << >>)

\* A transcript: the events of the file, or a file json.load cannot read.
Transcript(events) == [readable |-> TRUE, events |-> events]
UnreadableTranscript == [readable |-> FALSE, events |-> << >>]

\* The index document: a JSON list of records, or a file that is missing, is
\* not valid JSON, holds something that is not a list, or cannot be opened.
ListDoc(items) == [kind |-> "list", items |-> items]
DamagedDoc(kind) == [kind |-> kind, items |-> << >>]
DamagedKinds == {"missing", "invalid_json", "not_a_list", "unreadable"}

\* HistoricalExample.to_dict()
HistoricalExample(session_id, turn_index, user_query, final_answer, tools_used, successful_tools, tags, keywords) ==
    [session_id |-> session_id, turn_index |-> turn_index, user_query |-> user_query,
     final_answer |-> final_answer, tools_used |-> tools_used,
     successful_tools |-> successful_tools, tags |-> tags, keywords |-> keywords]

(***************************************************************************)
(* modules/historical_index.py: mining                                     *)
(***************************************************************************)
\* s.split(sep, 1): the parts before and after the first sep
IndexOf(s, sep) == CHOOSE i \in 1..Len(s) : s[i] = sep /\ \A m \in 1..(i - 1) : s[m] # sep
Before(s, sep) == Slice(s, 1, IndexOf(s, sep) - 1)
After(s, sep) == Slice(s, IndexOf(s, sep) + 1, Len(s))

\* NoneText when there is no marker or nothing follows it
_extract_user_query(run_text) ==
    IF ~contains(run_text, MARKER) THEN NoneText
    ELSE LET after == strip(After(run_text, MARKER))
             query == IF contains(after, AT) THEN strip(Before(after, AT)) ELSE after
         IN  IF query = << >> THEN NoneText ELSE query

_extract_final_answer(entry) ==
    IF entry.final_answer # NoneText /\ startswith(entry.final_answer, FA)
    THEN entry.final_answer
    ELSE IF entry.result \notin {NoneText, NonStr} /\ startswith(entry.result, FA)
    THEN entry.result
    ELSE NoneText

JunkPatterns == {"could not generate", "unknown", "unexpected"}

_should_index_final_answer(fa) ==
    /\ startswith(fa, FA)
    /\ \A bad \in JunkPatterns : ~has_substring(lower(fa), bad)

\* list(dict.fromkeys(xs)): first occurrences, in order
RECURSIVE unique(_)
unique(xs) ==
    IF xs = << >> THEN << >>
    ELSE LET init == unique(Slice(xs, 1, Len(xs) - 1))
             last == xs[Len(xs)]
         IN  IF \E i \in 1..Len(init) : init[i] = last THEN init ELSE Append(init, last)

\* The scan of one turn (lines 288-309): events[j..] up to the next run_metadata
\* event; acc = [final_answer, tools_used, successful_tools, tags, next].
\* The scan running on to the end of the transcript
turn_ends_with_transcript(events, j) == j > Len(events)

\* lines 289-292: the scan stops at the end or at a run_metadata event
turn_ends(events, j) == j > Len(events) \/ events[j].type = "run_metadata"

RECURSIVE scan_turn(_, _, _)
scan_turn(events, j, acc) ==
    IF turn_ends(events, j)
    THEN [acc EXCEPT !.next = j]
    ELSE LET e == events[j]
             named == e.type = "tool_output" /\ e.tool_name # ""
             fa == IF e.type = "tool_output" THEN _extract_final_answer(e) ELSE NoneText
         IN  scan_turn(events, j + 1,
                 [final_answer |-> IF fa # NoneText THEN fa ELSE acc.final_answer,
                  tools_used |-> IF named THEN Append(acc.tools_used, e.tool_name)
                                 ELSE acc.tools_used,
                  successful_tools |-> IF named /\ e.success
                                       THEN Append(acc.successful_tools, e.tool_name)
                                       ELSE acc.successful_tools,
                  tags |-> IF e.type = "tool_output" THEN acc.tags \o e.tags ELSE acc.tags,
                  next |-> acc.next])

EmptyTurn == [final_answer |-> NoneText, tools_used |-> << >>,
              successful_tools |-> << >>, tags |-> << >>, next |-> 0]

\* The loop of lines 268-329 from event i on, turn_idx examples found so far.
RECURSIVE mine_from(_, _, _, _)
mine_from(events, session_id, i, turn_idx) ==
    IF i > Len(events) THEN << >>
    ELSE LET evt == events[i]
             user_query == _extract_user_query(evt.text)
         IN  IF evt.type # "run_metadata" \/ ~contains(evt.text, MARKER)
                \/ user_query = NoneText
             THEN mine_from(events, session_id, i + 1, turn_idx)
             ELSE LET turn == scan_turn(events, i + 1, EmptyTurn)
                  IN  IF turn.final_answer = NoneText
                         \/ ~_should_index_final_answer(turn.final_answer)
                      THEN mine_from(events, session_id, turn.next, turn_idx)
                      ELSE << HistoricalExample(session_id, turn_idx, user_query,
                                  turn.final_answer, unique(turn.tools_used),
                                  unique(turn.successful_tools), unique(turn.tags),
                                  _normalize_text(user_query)) >>
                           \o mine_from(events, session_id, turn.next, turn_idx + 1)

_parse_session_memory(memory, session_id) ==
    IF ~memory.readable THEN << >> ELSE mine_from(memory.events, session_id, 1, 0)

(***************************************************************************)
(* modules/historical_index.py: index I/O, update, paraphrase lookup       *)
(***************************************************************************)
\* An entry of a document that is a list: a JSON object with the fields of a
\* record (a field that is missing or not a string is NonStr), or a JSON value
\* that is no object.
NotAnObject == [json |-> "number"]
is_dict(item) == "session_id" \in DOMAIN item
is_str(t) == t \notin {NoneText, NonStr}
all_dicts(index) == \A i \in 1..Len(index) : is_dict(index[i])

\* What a call gives when an exception leaves it
Raised == << "<raised>" >>

\* Every failure to read the document gives the empty list.
_load_index(doc) == IF doc.kind = "list" THEN doc.items ELSE << >>

\* item.get(...) of the retrieval loops (lines 411-412 and 469-470) raises
\* AttributeError on an entry that is no object
retrieval_raises(doc) == ~all_dicts(_load_index(doc))

\* open(path, "w") raises when the path cannot be opened; otherwise the whole
\* list replaces the document.
SaveRaises(doc) == doc.kind = "unreadable"
_save_index(doc, items) == ListDoc(items)

Key(item) == << item.session_id, item.turn_index >>

\* The set of line 355 left empty
no_keys(items) == {}

Keys(items) == { Key(items[i]) : i \in 1..Len(items) }

\* lines 358-364: the examples whose key is not in the index yet, appended
RECURSIVE append_new(_, _)
\* The append without the test of line 360
append_all(index, new_examples) == index \o new_examples

\* The new examples put before the records of the index
prepend_new(index, new_examples) ==
    SelectSeq(new_examples, LAMBDA ex : Key(ex) \notin Keys(index)) \o index

append_new(index, new_examples) ==
    IF new_examples = << >> THEN index
    ELSE LET ex == Head(new_examples)
         IN  IF Key(ex) \in Keys(index) THEN append_new(index, Tail(new_examples))
             ELSE append_new(Append(index, ex), Tail(new_examples))

\* update_index_for_session: [doc |-> the document afterwards, added |-> the
\* number of records appended, saved |-> whether the document was written]
update_index_for_session(memory, session_id, doc) ==
    LET new_examples == _parse_session_memory(memory, session_id)
        index == _load_index(doc)
        grown == append_new(index, new_examples)
        added == Len(grown) - Len(index)
    IN  IF new_examples = << >> THEN [doc |-> doc, added |-> 0, saved |-> FALSE]
        ELSE IF ~all_dicts(index) THEN [doc |-> doc, added |-> 0, saved |-> FALSE]
        ELSE IF added = 0 THEN [doc |-> doc, added |-> 0, saved |-> FALSE]
        ELSE IF SaveRaises(doc) THEN [doc |-> doc, added |-> added, saved |-> FALSE]
        ELSE [doc |-> _save_index(doc, grown), added |-> added, saved |-> TRUE]

\* lines 465-480: the best-scoring record so far, over index[i..]
RECURSIVE best_from(_, _, _, _)
best_from(index, user_query, i, best) ==
    IF i > Len(index) THEN best
    ELSE LET item == index[i]
             sim == _string_similarity(user_query, item.user_query)
         IN  IF /\ is_str(item.user_query)
                /\ is_str(item.final_answer)
                /\ startswith(item.final_answer, FA)
                /\ FracGt(sim, best.sim)
             THEN best_from(index, user_query, i + 1, [answer |-> item.final_answer, sim |-> sim])
             ELSE best_from(index, user_query, i + 1, best)

\* NoneText for "no hit"; min_similarity in hundredths.  item.get raises on
\* an entry that is no object (lines 469-470).
find_best_cached_answer(user_query, min_similarity, doc) ==
    LET index == _load_index(doc)
        best == best_from(index, user_query, 1, [answer |-> NoneText, sim |-> << 0, 1 >>])
    IN  IF index = << >> THEN NoneText
        ELSE IF retrieval_raises(doc) THEN Raised
        ELSE IF best.answer # NoneText /\ FracGe(best.sim, << min_similarity, 100 >>)
        THEN best.answer
        ELSE NoneText

(***************************************************************************)
(* modules/historical_index.py: the most similar examples                  *)
(***************************************************************************)
\* Duplicates counted as often as they occur
_jaccard_similarity_counting(a, b) ==
    IF a = << >> \/ b = << >> THEN << 0, 1 >>
    ELSE << Len(SelectSeq(a, LAMBDA w : \E j \in 1..Len(b) : b[j] = w)), Len(a) + Len(b) >>

\* len(sa & sb) / len(sa | sb), as the fraction << numerator, denominator >>
_jaccard_similarity(a, b) ==
    LET sa == { a[i] : i \in 1..Len(a) }
        sb == { b[i] : i \in 1..Len(b) }
    IN  IF sa = {} \/ sb = {} THEN << 0, 1 >>
        ELSE << Cardinality(sa \cap sb), Cardinality(sa \cup sb) >>

\* lines 414-419: the entries that are scored at all
scorable(item) ==
    /\ is_str(item.final_answer)
    /\ is_str(item.user_query)
    /\ startswith(item.final_answer, FA)
    /\ strip(item.final_answer) # COULD_NOT_GENERATE

\* line 421: item.get("keywords") or _normalize_text(uq)
keywords_of(item) ==
    IF item.keywords # << >> THEN item.keywords ELSE _normalize_text(item.user_query)

\* lines 410-424: the (sim, item) pairs with sim > 0, in store order
RECURSIVE scored_from(_, _, _)
scored_from(index, qkw, i) ==
    IF i > Len(index) THEN << >>
    ELSE LET item == index[i]
             sim == _jaccard_similarity(qkw, keywords_of(item))
         IN  IF scorable(item) /\ FracGt(sim, << 0, 1 >>)
             THEN << [sim |-> sim, item |-> item] >> \o scored_from(index, qkw, i + 1)
             ELSE scored_from(index, qkw, i + 1)

\* The pair put after the pairs of a sorted list that score as much or more
insert_scored(sorted, pair) ==
    LET after == { n \in 0..Len(sorted) :
                     \A m \in 1..n : FracGe(sorted[m].sim, pair.sim) }
        n == CHOOSE n \in after : \A m \in after : m <= n
    IN  Slice(sorted, 1, n) \o << pair >> \o Slice(sorted, n + 1, Len(sorted))

\* A sort that puts the lowest scores first
RECURSIVE sort_ascending(_)
sort_ascending(scored) ==
    IF scored = << >> THEN << >>
    ELSE LET low == CHOOSE i \in 1..Len(scored) :
                       \A j \in 1..Len(scored) : FracGe(scored[j].sim, scored[i].sim)
         IN  << scored[low] >>
               \o sort_ascending(Slice(scored, 1, low - 1) \o Slice(scored, low + 1, Len(scored)))

\* line 429: scored.sort(key=lambda x: x[0], reverse=True), a stable sort
RECURSIVE sort_descending(_)
sort_descending(scored) ==
    IF scored = << >> THEN << >>
    ELSE insert_scored(sort_descending(Slice(scored, 1, Len(scored) - 1)),
                       scored[Len(scored)])

\* load_similar_examples: the items of scored[:top_k]; Raised when item.get
\* meets an entry that is no object (lines 411-412)
load_similar_examples(user_query, top_k, doc) ==
    LET index == _load_index(doc)
        scored == sort_descending(scored_from(index, _normalize_text(user_query), 1))
    IN  IF index = << >> THEN << >>
        ELSE IF retrieval_raises(doc) THEN Raised
        ELSE [i \in 1..(IF top_k < Len(scored) THEN top_k ELSE Len(scored)) |-> scored[i].item]

(***************************************************************************)
(* Configuration and the collaborators' answers                            *)
(***************************************************************************)
\* strategy.max_steps and strategy.max_lifelines_per_step of the agent profile
max_steps == 3
max_lifelines_per_step == 1

\* jaccard_similarity_threshold, in hundredths
jaccard_similarity_threshold == 80

\* _finalize_from_content keeps tool_result[:2000] when the completion fails
FALLBACK_CHARS == 2000

\* The diagnostic without its marker
MAX_STEPS_UNMARKED == << "[Max steps reached]" >>

MAX_STEPS_REACHED == << FA, SP, "[Max steps reached]" >>
EXECUTION_FAILED  == << FA, SP, "[Execution failed]" >>

\* A budget of one forward less
allowed_fpr_uses_one_less == max_steps - 2

\* line 180
allowed_fpr_uses == max_steps - 1

\* The tasks run, the earlier session's transcripts, and the answers the
\* completion call, the sandbox and the summarizer's completion call can give
\* (NoneText: the call raised).
Queries == { << "b", " ", "c", " ", "d" >>, << "B", " ", "c", " ", "a" >> }

Completions ==
    { << FA, SP, "42" >>,
      << FPR, SP, "more" >>,
      << X >>,
      << ASYNC, SP, SOLVE, X >>,
      << FENCE, PY, NL, ASYNC, SP, SOLVE, X, NL, FENCE >>,
      << FA, SP, X, NL, SOLVE, X >>,
      << X, NL, SP, FA, SP, X, NL, SOLVE, X >> }

SandboxResults ==
    { << FA, SP, "42" >>,
      << SP, FA, SP, "[Max steps reached]", NL >>,
      << FPR, SP, "data", SP, NL >>,
      << ERR, SP, "boom]" >>,
      << "42" >>,
      << "see", SP, FPR, SP, "data" >> }

\* The results of the plans of a task whose tools hand on content of two kinds
ForwardingResults ==
    { << FA, SP, "42" >>,
      << FPR, SP, "data", SP, NL >>,
      << FPR, SP, "more", SP, FPR, SP, "later" >>,
      << FPR, SP, FILLER, SP, "tail" >>,
      << ERR, SP, "boom]" >> }

\* What the sandbox can return for a task
SandboxResultsFor(task) ==
    IF task = << "b", " ", "c", " ", "d" >> THEN ForwardingResults ELSE SandboxResults

Summaries == { << SP, "Paris", NL >> }

SESSION == "s1"
PRIOR_SESSION == "s0"

(***************************************************************************)
(* The session memory the controller records into                          *)
(***************************************************************************)
\* MemoryManager.add_tool_output
add_tool_output(mem, tool_name, tool_result, success, tags) ==
    Append(mem, Event("tool_output", NoneText, tool_name, success, NoneText, tool_result, tags))

\* MemoryManager.add_final_answer
add_final_answer(mem, text) ==
    Append(mem, Event("final_answer", text, "", FALSE, text, NoneText, << >>))

\* The index document an earlier session left: the update of an empty index
\* with that session's transcript.
PriorTranscripts ==
    { Transcript(<< >>),
      Transcript(<< RunStart(<< "b", " ", "c", " ", "d" >>),
                    Event("tool_output", NoneText, "solve_sandbox", TRUE, NoneText,
                          << FA, SP, "Paris" >>, << "sandbox" >>) >>) }

PriorDocs ==
    { update_index_for_session(t, PRIOR_SESSION, ListDoc(<< >>)).doc : t \in PriorTranscripts }

(***************************************************************************)
(* core/loop.py: AgentLoop.run                                             *)
(***************************************************************************)
VARIABLES
    pc,                      \* where run is: start, for (the head of the step
                             \* loop), perceive, plan, sandbox, summarize (the
                             \* calls awaited), done, raised
    user_input,              \* context.user_input
    user_input_override,     \* context.user_input_override, NoneText when unset
    step,                    \* context.step
    lifelines_left,
    further_processing_uses,
    plan,                    \* the plan of the iteration, NoneText once it has run
    result,                  \* the sandbox result of the iteration, stripped
    content,                 \* the content handed to the summarizer
    final_answer,            \* context.final_answer, NoneText when unset
    returned,                \* the dict run returned: its status, "" before
    memory,                  \* the events of the session's memory file
    index_doc,               \* the historical index document
    how,                     \* the return statement run left by
    calls,                   \* calls made: perception, planner (this step),
                             \* sandbox, summarizer, index updates, steps started
    last_update,             \* the last direct call of update_index_for_session
    updates,                 \* the number of such calls
    call,                    \* the last direct call of a function of the
                             \* modules: its name, arguments and result
    writers                  \* the sessions updating the index side by side

vars == << pc, user_input, user_input_override, step, lifelines_left,
           further_processing_uses, plan, result, content, final_answer, returned,
           memory, index_doc, how, calls, last_update, updates, call, writers >>

\* What only the index operations below change
index_log == << last_update, updates, call, writers >>

NoCall == [op |-> "none", args |-> << >>, result |-> << >>, raised |-> FALSE]
NoWriters == << >>

NoUpdate == [memory |-> UnreadableTranscript, session_id |-> "", added |-> 0,
             saved |-> FALSE, repeat |-> FALSE]

NoCalls == [perception |-> 0, planner |-> 0, sandbox |-> 0, summarizer |-> 0,
            index_update |-> 0, steps |-> 0]

Init ==
    /\ pc = "start"
    /\ user_input \in Queries
    /\ user_input_override = NoneText
    /\ step = -1
    /\ lifelines_left = 0
    /\ further_processing_uses = 0
    /\ plan = NoneText
    /\ result = NoneText
    /\ content = NoneText
    /\ final_answer = NoneText
    /\ returned = ""
    /\ memory = << RunStart(user_input) >>
    /\ index_doc \in PriorDocs
    /\ how = ""
    /\ calls = NoCalls
    /\ last_update = NoUpdate
    /\ updates = 0
    /\ call = NoCall
    /\ writers = NoWriters

\* _update_historical_index (lines 84-93) on the memory as it will be
_update_historical_index(mem) ==
    update_index_for_session(Transcript(mem), SESSION, index_doc).doc

\* return {"status": "done", "result": self.context.final_answer}
Return(answer, by) ==
    /\ final_answer' = answer
    /\ returned' = "done"
    /\ how' = by
    /\ pc' = "done"

\* add_final_answer, _update_historical_index, return
RecordAndReturn(mem, answer, by, made) ==
    /\ Return(answer, by)
    /\ memory' = add_final_answer(mem, answer)
    /\ index_doc' = _update_historical_index(add_final_answer(mem, answer))
    /\ calls' = [made EXCEPT !.index_update = @ + 1]

\* A retry that forgets to use up a lifeline
after_retry_forgotten(lifelines) == lifelines

\* lines 338 and 346: lifelines_left -= 1
after_retry(lifelines) == lifelines - 1

\* line 188: while lifelines_left >= 0, as the place run goes on at
loop_test(lifelines) == IF lifelines >= 0 THEN "perceive" ELSE "for"

\* The cache hit with lines 171-172 not commented out
CacheHitRecorded(semantic_hit) == RecordAndReturn(memory, strip(semantic_hit), "cache", calls)

\* lines 166-173: the cached answer is returned; nothing is recorded
CacheHit(semantic_hit) ==
    /\ Return(strip(semantic_hit), "cache")
    /\ UNCHANGED << memory, index_doc, calls >>

\* lines 157-181: the semantic cache first, then the loop
Start ==
    /\ pc = "start"
    /\ UNCHANGED index_log
    /\ LET semantic_hit ==
               find_best_cached_answer(user_input, jaccard_similarity_threshold, index_doc)
       IN  IF semantic_hit = Raised
           THEN /\ pc' = "raised"
                /\ how' = "exception"
                /\ UNCHANGED << final_answer, returned, memory, index_doc, calls,
                                further_processing_uses >>
           ELSE IF semantic_hit # NoneText
           THEN /\ CacheHit(semantic_hit)
                /\ UNCHANGED further_processing_uses
           ELSE /\ further_processing_uses' = 0
                /\ pc' = "for"
                /\ UNCHANGED << final_answer, returned, how, memory, index_doc, calls >>
    /\ UNCHANGED << user_input, user_input_override, step, lifelines_left, plan, result,
                    content >>

\* line 183: the next step, or lines 349-353 when the steps are used up
ForHead ==
    /\ pc = "for"
    /\ UNCHANGED index_log
    /\ IF step + 1 < max_steps
       THEN /\ step' = step + 1
            /\ lifelines_left' = max_lifelines_per_step
            /\ pc' = loop_test(max_lifelines_per_step)
            /\ calls' = [calls EXCEPT !.steps = @ + 1, !.planner = 0]
            /\ UNCHANGED << final_answer, returned, how, memory, index_doc >>
       ELSE /\ RecordAndReturn(memory, MAX_STEPS_REACHED, "max_steps", calls)
            /\ UNCHANGED << step, lifelines_left >>
    /\ UNCHANGED << user_input, user_input_override, further_processing_uses, plan, result,
                    content >>

\* The task as the call sees it, with the override ignored
effective_user_input_task == user_input

\* lines 193 and 211: user_input_override or self.context.user_input
effective_user_input ==
    IF user_input_override \notin {NoneText, << >>} THEN user_input_override ELSE user_input

\* A call of a collaborator with the effective input (what generate_plan
\* returns is kept in plan)
Called(op, outcome) ==
    [op |-> op, args |-> << effective_user_input >>, result |-> outcome, raised |-> FALSE]

\* The step given up whenever no tool is selected
aborts_step_without_tools(selected_tools, is_summarizing) == ~selected_tools

\* line 206
aborts_step(selected_tools, is_summarizing) == ~selected_tools /\ ~is_summarizing

\* lines 190-208: perception selects tools or none
Perceive ==
    /\ pc = "perceive"
    /\ UNCHANGED << last_update, updates, writers >>
    /\ \E selected_tools \in BOOLEAN :
          LET is_summarizing == user_input_override \notin {NoneText, << >>}
          IN  /\ pc' = IF aborts_step(selected_tools, is_summarizing) THEN "for" ELSE "plan"
              /\ call' = Called("run_perception", << selected_tools >>)
    /\ calls' = [calls EXCEPT !.perception = @ + 1]
    /\ UNCHANGED << user_input, user_input_override, step, lifelines_left,
                    further_processing_uses, plan, result, content, final_answer, returned,
                    memory, index_doc, how >>

\* line 245
is_solve_plan(p) == has_solve(p)

\* Only FINAL_ANSWER: taken as a direct answer
is_direct_answer_final_only(p) == startswith(p, FA)

\* lines 234-237
is_direct_answer(p) == startswith(p, FA) \/ startswith(p, FPR)

\* What generate_plan can return: the completion call returned or raised.
Plans == { generate_plan(completion) : completion \in Completions \cup {NoneText} }

\* lines 220-249 and 341-347: the plan, then the branch on it
Plan ==
    /\ pc = "plan"
    /\ UNCHANGED << last_update, updates, writers >>
    /\ \E p \in Plans :
          /\  /\ plan' = p
              /\ call' = Called("generate_plan", << >>)
              /\ IF is_direct_answer(p)
                 THEN /\ RecordAndReturn(memory, p, "direct",
                                         [calls EXCEPT !.planner = @ + 1])
                      /\ UNCHANGED lifelines_left
                 ELSE IF is_solve_plan(p)
                 THEN /\ pc' = "sandbox"
                      /\ calls' = [calls EXCEPT !.planner = @ + 1]
                      /\ UNCHANGED << lifelines_left, final_answer, returned, how, memory,
                                      index_doc >>
                 ELSE /\ lifelines_left' = after_retry(lifelines_left)
                      /\ pc' = loop_test(after_retry(lifelines_left))
                      /\ calls' = [calls EXCEPT !.planner = @ + 1]
                      /\ UNCHANGED << final_answer, returned, how, memory, index_doc >>
    /\ UNCHANGED << user_input, user_input_override, step, further_processing_uses, result,
                    content >>

\* line 270: result.split("FURTHER_PROCESSING_REQUIRED:")[1].strip()
fpr_content(r) ==
    LET rest == After(r, FPR)
    IN  strip(IF contains(rest, FPR) THEN Before(rest, FPR) ELSE rest)

\* The budget test with < for <=
within_fpr_budget_strict(uses) == uses < allowed_fpr_uses

\* line 273
within_fpr_budget(uses) == uses <= allowed_fpr_uses

\* The prompt built on the override of the step before, when there is one
override_prompt_chained(task, produced) ==
    << "Original user task: " >> \o (IF user_input_override = NoneText THEN task ELSE user_input_override)
       \o << "\\n\\nYour last tool produced this result:\\n\\n" >> \o produced
       \o << "\\n\\nIf this fully answers the task, return:\\nFINAL_ANSWER: your answer\\n\\nOtherwise, return the next FUNCTION_CALL." >>

\* lines 275-282
override_prompt(task, produced) ==
    << "Original user task: " >> \o task
       \o << "\\n\\nYour last tool produced this result:\\n\\n" >> \o produced
       \o << "\\n\\nIf this fully answers the task, return:\\nFINAL_ANSWER: your answer\\n\\nOtherwise, return the next FUNCTION_CALL." >>

\* lines 251-318: success and the final answer the result sets
sandbox_success(r) ==
    IF r = NonStr THEN FALSE
    ELSE IF startswith(r, FA) THEN TRUE
    ELSE IF startswith(r, ERR) THEN FALSE
    ELSE TRUE

sandbox_answer(r) ==
    IF r = NonStr THEN << FA, SP >> \o r
    ELSE IF startswith(r, FA) THEN r
    ELSE IF startswith(r, ERR) THEN EXECUTION_FAILED
    ELSE << FA, SP >> \o r

\* line 333
returns_after_sandbox(r) == sandbox_success(r) /\ ~contains(r, FPR)

\* lines 249-340: the sandbox returned
Sandbox ==
    /\ pc = "sandbox"
    /\ UNCHANGED index_log
    /\ \E returned_value \in SandboxResultsFor(user_input) :
          LET r == IF returned_value = NonStr THEN NonStr ELSE strip(returned_value)
              made == [calls EXCEPT !.sandbox = @ + 1]
              logged == add_tool_output(memory, "solve_sandbox", r, sandbox_success(r),
                                        << "sandbox" >>)
          IN  /\ result' = r
              /\ plan' = NoneText
              /\ IF r # NonStr /\ startswith(r, FA)
                 THEN /\ RecordAndReturn(logged, r, "sandbox", made)
                      /\ UNCHANGED << user_input_override, lifelines_left,
                                      further_processing_uses, content >>
                 ELSE IF r # NonStr /\ startswith(r, FPR)
                 THEN /\ further_processing_uses' = further_processing_uses + 1
                      /\ calls' = made
                      /\ IF within_fpr_budget(further_processing_uses + 1)
                         THEN /\ user_input_override' =
                                     override_prompt(user_input, fpr_content(r))
                              /\ pc' = "for"
                              /\ UNCHANGED content
                         ELSE /\ content' = fpr_content(r)
                              /\ pc' = "summarize"
                              /\ UNCHANGED user_input_override
                      /\ UNCHANGED << lifelines_left, final_answer, returned, how, memory,
                                      index_doc >>
                 ELSE IF returns_after_sandbox(r)
                 THEN /\ RecordAndReturn(logged, sandbox_answer(r), "sandbox", made)
                      /\ UNCHANGED << user_input_override, lifelines_left,
                                      further_processing_uses, content >>
                 ELSE /\ final_answer' = sandbox_answer(r)
                      /\ memory' = logged
                      /\ lifelines_left' = after_retry(lifelines_left)
                      /\ pc' = loop_test(after_retry(lifelines_left))
                      /\ calls' = made
                      /\ UNCHANGED << user_input_override, further_processing_uses,
                                      content, returned, how, index_doc >>
    /\ UNCHANGED << user_input, step >>

\* line 249: the sandbox call raised; run has no handler around it
SandboxRaises ==
    /\ pc = "sandbox"
    /\ UNCHANGED index_log
    /\ pc' = "raised"
    /\ how' = "exception"
    /\ calls' = [calls EXCEPT !.sandbox = @ + 1]
    /\ UNCHANGED << user_input, user_input_override, step, lifelines_left,
                    further_processing_uses, plan, result, content, final_answer, returned,
                    memory, index_doc >>

\* _finalize_from_content (lines 139-145): the completion stripped, or the
\* head of the content when the completion call raised
\* The fallback handing back all of the content
_finalize_from_content_whole(tool_result, completion) ==
    IF completion = NoneText THEN tool_result ELSE strip(completion)

_finalize_from_content(tool_result, completion) ==
    IF completion = NoneText THEN first_chars(tool_result, FALLBACK_CHARS)
    ELSE strip(completion)

\* lines 299-309
Summarize ==
    /\ pc = "summarize"
    /\ UNCHANGED << last_update, updates, writers >>
    /\ \E completion \in Summaries \cup {NoneText} :
          /\ RecordAndReturn(memory, << FA, SP >> \o _finalize_from_content(content, completion),
                             "summarizer", [calls EXCEPT !.summarizer = @ + 1])
          /\ call' = [op |-> "_finalize_from_content",
                      args |-> << user_input, content, completion >>,
                      result |-> _finalize_from_content(content, completion),
                      raised |-> FALSE]
    /\ UNCHANGED << user_input, user_input_override, step, lifelines_left,
                    further_processing_uses, plan, result, content >>

Next ==
    \/ Start
    \/ ForHead
    \/ Perceive
    \/ Plan
    \/ Sandbox
    \/ SandboxRaises
    \/ Summarize

Spec == Init /\ [][Next]_vars

(***************************************************************************)
(* The run when every collaborator call returns                            *)
(***************************************************************************)
NextReturns ==
    \/ Start
    \/ ForHead
    \/ Perceive
    \/ Plan
    \/ Sandbox
    \/ Summarize

\* The points of run at which it awaits a call or is about to make one
Running == {"start", "for", "perceive", "plan", "sandbox", "summarize"}

\* Control leaves the point it is at: what every step of NextReturns does
Proceeds == pc \in Running /\ pc' \in Running \cup {"done"} /\ pc' # pc

\* run is one coroutine: it goes on whenever the call it awaits has returned
SpecReturns == Init /\ [][NextReturns]_vars /\ WF_pc(Proceeds)

(***************************************************************************)
(* The index on its own: update_index_for_session called with transcripts  *)
(***************************************************************************)
MaxUpdates == 2

Sessions == {"s1", "s2"}

ToolOutput(final_answer_field, tool_result, success) ==
    Event("tool_output", NoneText, "solve_sandbox", success, final_answer_field, tool_result,
          << "sandbox" >>)

\* The turns a transcript is made of: a run-start event and what follows it
Turns ==
    { << RunStart(<< "b", " ", "c" >>), ToolOutput(NoneText, << FA, SP, "Paris" >>, TRUE) >>,
      << RunStart(<< "a", " ", "d" >>), ToolOutput(NoneText, << ERR, SP, "boom]" >>, FALSE),
         ToolOutput(NoneText, << FA, SP, "[Max steps reached]" >>, TRUE) >>,
      << RunStart(<< "c", " ", "d" >>), ToolOutput(<< FA, SP, "[Unknown]" >>, NoneText, TRUE) >>,
      << RunStart(<< "b", " ", "d" >>),
         Event("final_answer", << FA, SP, "Rome" >>, "", FALSE, << FA, SP, "Rome" >>,
               NoneText, << >>) >> }

\* The transcripts updated from: no turn, one turn, two turns, and a file
\* json.load cannot read
Transcripts ==
    { Transcript(first \o second) : first, second \in Turns \cup { << >> } }
        \cup { UnreadableTranscript }

InitIndex ==
    /\ pc = "index"
    /\ user_input = << >>
    /\ user_input_override = NoneText
    /\ step = -1
    /\ lifelines_left = 0
    /\ further_processing_uses = 0
    /\ plan = NoneText
    /\ result = NoneText
    /\ content = NoneText
    /\ final_answer = NoneText
    /\ returned = ""
    /\ memory = << >>
    /\ index_doc \in { ListDoc(<< >>) } \cup { DamagedDoc(k) : k \in DamagedKinds }
    /\ how = ""
    /\ calls = NoCalls
    /\ last_update = NoUpdate
    /\ updates = 0
    /\ call = NoCall
    /\ writers = NoWriters

\* update_index_for_session(memory_path_str, session_id)
UpdateIndex ==
    /\ pc = "index"
    /\ updates < MaxUpdates
    /\ \E transcript \in Transcripts, session_id \in Sessions :
          LET done == update_index_for_session(transcript, session_id, index_doc)
          IN  /\ index_doc' = done.doc
              /\ last_update' =
                    [memory |-> transcript, session_id |-> session_id,
                     added |-> done.added, saved |-> done.saved,
                     repeat |-> /\ updates > 0
                                /\ transcript = last_update.memory
                                /\ session_id = last_update.session_id]
    /\ updates' = updates + 1
    /\ UNCHANGED << pc, user_input, user_input_override, step, lifelines_left,
                    further_processing_uses, plan, result, content, final_answer, returned,
                    memory, how, calls, call, writers >>

NextIndex == UpdateIndex

SpecIndex == InitIndex /\ [][NextIndex]_vars

(***************************************************************************)
(* Retrieval on its own: load_similar_examples and find_best_cached_answer *)
(* called on a document                                                    *)
(***************************************************************************)
MaxTopK == 3

\* The variables of run, which no direct call of a module function changes
run_vars == << pc, user_input, user_input_override, step, lifelines_left,
               further_processing_uses, plan, result, content, final_answer, returned,
               memory, how, calls >>

\* run is not running: control is at the given place and stays there
Idle(at) ==
    /\ pc = at
    /\ user_input = << >>
    /\ user_input_override = NoneText
    /\ step = -1
    /\ lifelines_left = 0
    /\ further_processing_uses = 0
    /\ plan = NoneText
    /\ result = NoneText
    /\ content = NoneText
    /\ final_answer = NoneText
    /\ returned = ""
    /\ memory = << >>
    /\ how = ""
    /\ calls = NoCalls
    /\ last_update = NoUpdate
    /\ updates = 0
    /\ call = NoCall

\* The turns of the sessions that filled the documents looked up in
LookupTurns ==
    { << RunStart(<< "b", " ", "c" >>), ToolOutput(NoneText, << FA, SP, "Paris" >>, TRUE) >>,
      << RunStart(<< "B", " ", "c" >>), ToolOutput(NoneText, << FA, SP, "Rome" >>, TRUE) >>,
      << RunStart(<< "c", " ", "d" >>), ToolOutput(NoneText, << FA, SP, "42" >>, TRUE) >>,
      << RunStart(<< "a", " ", "d" >>), ToolOutput(NoneText, << FA, SP, "7" >>, TRUE) >> }

\* A record as the update writes it
Stored(session_id, turn_index, user_query, answer) ==
    HistoricalExample(session_id, turn_index, user_query, answer, << "solve_sandbox" >>,
                      << "solve_sandbox" >>, << "sandbox" >>, _normalize_text(user_query))

\* An object without the fields of a record
MissingFields == HistoricalExample("s1", 0, NonStr, NonStr, << >>, << >>, << >>, << >>)

\* Documents the updates of two sessions leave: up to two turns of one, then
\* up to one turn of the other
UpdatedDocs ==
    { update_index_for_session(Transcript(third), "s2",
         update_index_for_session(Transcript(first \o second), "s1", ListDoc(<< >>)).doc).doc :
      first \in LookupTurns \cup { << >> }, second \in LookupTurns \cup { << >> },
      third \in LookupTurns \cup { << >> } }

\* Documents written by other means: entries that are no records, an answer
\* without the marker, the placeholder answer, a record without keywords
OtherDocs ==
    { ListDoc(<< NotAnObject >>),
      ListDoc(<< Stored("s1", 0, << "b", " ", "c" >>, << FA, SP, "Paris" >>), NotAnObject >>),
      ListDoc(<< MissingFields >>),
      ListDoc(<< MissingFields, Stored("s1", 1, << "c", " ", "d" >>, << FA, SP, "42" >>) >>),
      ListDoc(<< Stored("s1", 0, << "b", " ", "c" >>, << "Paris" >>) >>),
      ListDoc(<< Stored("s1", 0, << "b", " ", "c" >>, COULD_NOT_GENERATE),
                 Stored("s1", 1, << "c", " ", "d" >>, << FA, SP, "42" >>) >>),
      ListDoc(<< [Stored("s1", 0, << "B", " ", "c" >>, << FA, SP, "Paris" >>)
                    EXCEPT !.keywords = << >>] >>) }

LookupDocs == { DamagedDoc(k) : k \in DamagedKinds } \cup UpdatedDocs \cup OtherDocs

LookupQueries ==
    { << "b", " ", "c" >>, << "b", " ", "c", " ", "d" >>, << "B", " ", "c", " ", "a" >>,
      << "a" >> }

\* min_similarity, in hundredths
Thresholds == {1, 75, 80, 100}

InitLookup ==
    /\ Idle("lookup")
    /\ writers = NoWriters
    /\ index_doc \in LookupDocs

FindBest ==
    /\ pc = "lookup"
    /\ call = NoCall
    /\ \E user_query \in LookupQueries, min_similarity \in Thresholds :
          call' = [op |-> "find_best_cached_answer",
                   args |-> << user_query, min_similarity >>,
                   result |-> find_best_cached_answer(user_query, min_similarity, index_doc),
                   raised |-> retrieval_raises(index_doc)]
    /\ UNCHANGED << run_vars, index_doc, last_update, updates, writers >>

LoadSimilar ==
    /\ pc = "lookup"
    /\ call = NoCall
    /\ \E user_query \in LookupQueries, top_k \in 1..MaxTopK :
          call' = [op |-> "load_similar_examples",
                   args |-> << user_query, top_k >>,
                   result |-> load_similar_examples(user_query, top_k, index_doc),
                   raised |-> retrieval_raises(index_doc)]
    /\ UNCHANGED << run_vars, index_doc, last_update, updates, writers >>

NextLookup ==
    \/ FindBest
    \/ LoadSimilar

SpecLookup == InitLookup /\ [][NextLookup]_vars

(***************************************************************************)
(* _jaccard_similarity on its own                                          *)
(***************************************************************************)
MaxKeywords == 3

Keywords == { << "b" >>, << "c" >>, << "d" >> }

\* The keyword lists of up to n keywords, duplicates and every order included
RECURSIVE KeywordListsOf(_)
KeywordListsOf(n) ==
    IF n = 0 THEN { << >> }
    ELSE KeywordListsOf(n - 1)
           \cup { Append(ks, w) : ks \in KeywordListsOf(n - 1), w \in Keywords }

KeywordLists == KeywordListsOf(MaxKeywords)

InitJaccard ==
    /\ Idle("jaccard")
    /\ writers = NoWriters
    /\ index_doc = ListDoc(<< >>)

Jaccard ==
    /\ pc = "jaccard"
    /\ call = NoCall
    /\ \E a, b \in KeywordLists :
          call' = [op |-> "_jaccard_similarity", args |-> << a, b >>,
                   result |-> _jaccard_similarity(a, b), raised |-> FALSE]
    /\ UNCHANGED << run_vars, index_doc, last_update, updates, writers >>

NextJaccard == Jaccard

SpecJaccard == InitJaccard /\ [][NextJaccard]_vars

(***************************************************************************)
(* modules/heuristics.py: the checks on the raw request text               *)
(***************************************************************************)
\* Request text is written piece by piece: SP, NL, or a run of characters
\* without whitespace. Pieces next to each other with no whitespace between
\* them make one word.

\* len(text.split()): the runs of pieces that are not whitespace
word_count(s) ==
    Cardinality({ i \in 1..Len(s) : ~IsSpace(s[i]) /\ (i = 1 \/ IsSpace(s[i - 1])) })

\* pat in text, pat written piece by piece as well
occurs_in(s, pat) ==
    \E i \in 1..(Len(s) + 1 - Len(pat)) : Slice(s, i, i + Len(pat) - 1) = pat

\* re.IGNORECASE on one piece
ignorecase_token(t) ==
    CASE t = "GMAIL.COM" -> "gmail.com"
      [] t = "PowerShell" -> "powershell"
      [] OTHER -> t

ignorecase(s) == [i \in 1..Len(s) |-> ignorecase_token(s[i])]

\* line 11
BLOCKED_DOMAINS == { << "gmail.com" >>, << "drive.google.com" >>, << "localhost" >> }

\* line 31: rm -rf|powershell|bypass antivirus
HARMFUL == { << "rm", SP, "-rf" >>, << "powershell" >>, << "bypass", SP, "antivirus" >> }

\* line 35: (password|secret key|confidential)
CONFIDENTIAL == { << "password" >>, << "secret", SP, "key" >>, << "confidential" >> }

\* re.search(pattern, text, re.IGNORECASE)
search(alternatives, s) == \E pat \in alternatives : occurs_in(ignorecase(s), pat)

TOO_SHORT    == << FA, "Please add a bit more detail to your request." >>
TOO_LONG     == << FA, "Your request is quite long. Please narrow it down." >>
PRIVACY      == << FA, "For privacy reasons I can't access that site. Please paste the relevant text instead." >>
UNSAFE       == << FA, "I can't help with harmful or unsafe scripts." >>
LOOKS_SECRET == << FA, "This looks confidential. Please remove secrets and try again." >>

\* lines 4-8
HeuristicResult(allowed, text) == [allowed |-> allowed, text |-> text, reason |-> NoneText]

\* The blocked domains looked at before the number of words.
apply_query_heuristics_domain_first(request) ==
    LET text == strip(request)
    IN  IF \E domain \in BLOCKED_DOMAINS : occurs_in(text, domain) THEN HeuristicResult(FALSE, PRIVACY)
        ELSE IF word_count(text) < 3 THEN HeuristicResult(FALSE, TOO_SHORT)
        ELSE IF len(text) > 3000 THEN HeuristicResult(FALSE, TOO_LONG)
        ELSE IF search(HARMFUL, text) THEN HeuristicResult(FALSE, UNSAFE)
        ELSE IF search(CONFIDENTIAL, text) THEN HeuristicResult(FALSE, LOOKS_SECRET)
        ELSE HeuristicResult(TRUE, text)

\* lines 13-38, request its user_input
apply_query_heuristics(request) ==
    LET text == strip(request)
    IN  IF word_count(text) < 3 THEN HeuristicResult(FALSE, TOO_SHORT)
        ELSE IF len(text) > 3000 THEN HeuristicResult(FALSE, TOO_LONG)
        ELSE IF \E domain \in BLOCKED_DOMAINS : occurs_in(text, domain) THEN HeuristicResult(FALSE, PRIVACY)
        ELSE IF search(HARMFUL, text) THEN HeuristicResult(FALSE, UNSAFE)
        ELSE IF search(CONFIDENTIAL, text) THEN HeuristicResult(FALSE, LOOKS_SECRET)
        ELSE HeuristicResult(TRUE, text)

(***************************************************************************)
(* apply_query_heuristics on its own                                       *)
(***************************************************************************)
MaxWords == 4

GateWords == {"hi", FILLER, "gmail.com", "GMAIL.COM", "rm", "-rf", "PowerShell", "password"}

\* The requests of up to n words, a single space between two words
RECURSIVE RequestsOf(_)
RequestsOf(n) ==
    IF n = 0 THEN { << >> }
    ELSE RequestsOf(n - 1)
           \cup { IF r = << >> THEN << w >> ELSE r \o << SP, w >> : r \in RequestsOf(n - 1), w \in GateWords }

Padding == { << >>, << NL, SP >> }

\* Whitespace around the request included
GateInputs == { l \o r \o t : l \in Padding, r \in RequestsOf(MaxWords), t \in Padding }

InitGate ==
    /\ Idle("gate")
    /\ writers = NoWriters
    /\ index_doc = ListDoc(<< >>)

Gate ==
    /\ pc = "gate"
    /\ call = NoCall
    /\ \E request \in GateInputs :
          call' = [op |-> "apply_query_heuristics", args |-> << request >>,
                   result |-> apply_query_heuristics(request), raised |-> FALSE]
    /\ UNCHANGED << run_vars, index_doc, last_update, updates, writers >>

NextGate == Gate

SpecGate == InitGate /\ [][NextGate]_vars

(***************************************************************************)
(* Two sessions in update_index_for_session at the same time. Each reads   *)
(* the document once (line 354) and writes it once (line 367); nothing     *)
(* keeps the other out in between.                                         *)
(***************************************************************************)
\* A writer: where it is (start, loaded, done), its transcript, the list it
\* holds in memory, the records it appended to that list, whether it wrote
\* the document, and whether the other wrote the document since it read it
Writer(at, transcript, index, appended, saved, stale) ==
    [pc |-> at, memory |-> transcript, index |-> index, appended |-> appended,
     saved |-> saved, stale |-> stale]

WriterDocs ==
    { ListDoc(<< >>), ListDoc(<< Stored("s0", 0, << "b", " ", "c" >>, << FA, SP, "Paris" >>) >>),
      ListDoc(<< NotAnObject >>) }
        \cup { DamagedDoc(k) : k \in DamagedKinds }

InitWriters ==
    /\ Idle("writers")
    /\ index_doc \in WriterDocs
    /\ \E first, second \in Transcripts :
          writers = [session_id \in Sessions |->
                        Writer("start", IF session_id = "s1" THEN first ELSE second,
                               << >>, << >>, FALSE, FALSE)]

\* The list handed to _save_index with the document as it is now: all of the
\* document as it is now and the appended records after it
written_index_merged(index, appended, doc) == append_new(_load_index(doc), appended)

\* line 367: the list handed to _save_index is the one built from what this
\* writer read
written_index(index, appended, doc) == index

\* lines 349-364: parse the transcript, read the document, append to the list
\* in memory
WriterLoad(session_id) ==
    LET w == writers[session_id]
        new_examples == _parse_session_memory(w.memory, session_id)
        index == _load_index(index_doc)
        grown == append_new(index, new_examples)
    IN  /\ pc = "writers"
        /\ w.pc = "start"
        /\ writers' =
              [writers EXCEPT ![session_id] =
                  IF new_examples = << >> \/ ~all_dicts(index) \/ Len(grown) = Len(index)
                  THEN Writer("done", w.memory, << >>, << >>, FALSE, FALSE)
                  ELSE Writer("loaded", w.memory, grown,
                              Slice(grown, Len(index) + 1, Len(grown)), FALSE, FALSE)]
        /\ UNCHANGED << run_vars, index_doc, last_update, updates, call >>

\* lines 366-367: write the list; an exception of open() is caught at 371
WriterSave(session_id) ==
    LET w == writers[session_id]
    IN  /\ pc = "writers"
        /\ w.pc = "loaded"
        /\ IF SaveRaises(index_doc)
           THEN /\ writers' = [writers EXCEPT ![session_id].pc = "done"]
                /\ UNCHANGED index_doc
           ELSE /\ index_doc' = _save_index(index_doc, written_index(w.index, w.appended, index_doc))
                /\ writers' =
                      [other \in Sessions |->
                          IF other = session_id
                          THEN Writer("done", w.memory, w.index, w.appended, TRUE, w.stale)
                          ELSE IF writers[other].pc = "loaded"
                               THEN [writers[other] EXCEPT !.stale = TRUE]
                               ELSE writers[other]]
        /\ UNCHANGED << run_vars, last_update, updates, call >>

NextWriters == \E session_id \in Sessions : WriterLoad(session_id) \/ WriterSave(session_id)

SpecWriters == InitWriters /\ [][NextWriters]_vars

(***************************************************************************)
(* generate_plan on its own: the text of the completion call classified    *)
(***************************************************************************)
MaxPlanTokens == 5

PlanTokens == {FA, FPR, SOLVE, X, SP, NL}

\* The completions of up to n tokens
RECURSIVE PlanTextsOf(_)
PlanTextsOf(n) ==
    IF n = 0 THEN { << >> }
    ELSE PlanTextsOf(n - 1) \cup { Append(t, k) : t \in PlanTextsOf(n - 1), k \in PlanTokens }

InitPlanner ==
    /\ Idle("planner")
    /\ writers = NoWriters
    /\ index_doc = ListDoc(<< >>)

GeneratePlan ==
    /\ pc = "planner"
    /\ call = NoCall
    /\ \E completion \in PlanTextsOf(MaxPlanTokens) :
          call' = [op |-> "generate_plan", args |-> << completion >>,
                   result |-> generate_plan(completion), raised |-> FALSE]
    /\ UNCHANGED << run_vars, index_doc, last_update, updates, writers >>

NextPlanner == GeneratePlan

SpecPlanner == InitPlanner /\ [][NextPlanner]_vars

(***************************************************************************)
(* Mining on its own: _parse_session_memory called with transcripts        *)
(***************************************************************************)
MaxEvents == 4

\* A run_metadata event that starts no run
Note == Event("run_metadata", << "note" >>, "", FALSE, NoneText, NoneText, << >>)

\* The events a transcript is written with
MineEvents ==
    { RunStart(<< "b", " ", "c" >>),
      RunStart(<< "c", " ", "d" >>),
      Note,
      ToolOutput(NoneText, << FA, SP, "Paris" >>, TRUE),
      Event("tool_output", NoneText, "search", FALSE, << FA, SP, "Rome" >>,
            << FA, SP, "Paris" >>, << "web" >>),
      ToolOutput(NoneText, << ERR, SP, "boom]" >>, FALSE),
      ToolOutput(<< FA, SP, "[Unknown]" >>, NoneText, TRUE) }

RECURSIVE EventListsOf(_)
EventListsOf(n) ==
    IF n = 0 THEN { << >> }
    ELSE EventListsOf(n - 1) \cup { Append(es, e) : es \in EventListsOf(n - 1), e \in MineEvents }

InitMine ==
    /\ Idle("mine")
    /\ writers = NoWriters
    /\ index_doc = ListDoc(<< >>)

Mine ==
    /\ pc = "mine"
    /\ call = NoCall
    /\ \E events \in EventListsOf(MaxEvents) :
          call' = [op |-> "_parse_session_memory", args |-> << Transcript(events), SESSION >>,
                   result |-> _parse_session_memory(Transcript(events), SESSION),
                   raised |-> FALSE]
    /\ UNCHANGED << run_vars, index_doc, last_update, updates, writers >>

NextMine == Mine

SpecMine == InitMine /\ [][NextMine]_vars

(***************************************************************************)
(* The transcript of a session growing, the index updated after each growth *)
(***************************************************************************)
\* The events a growing transcript is written with
GrowEvents ==
    { RunStart(<< "b", " ", "c" >>),
      RunStart(<< "c", " ", "d" >>),
      ToolOutput(NoneText, << FA, SP, "Paris" >>, TRUE),
      Event("tool_output", NoneText, "search", FALSE, << FA, SP, "Rome" >>,
            << FA, SP, "Paris" >>, << "web" >>),
      ToolOutput(<< FA, SP, "[Unknown]" >>, NoneText, TRUE) }

RECURSIVE AppendedOf(_)
AppendedOf(n) ==
    IF n = 0 THEN { << >> }
    ELSE AppendedOf(n - 1) \cup { Append(es, e) : es \in AppendedOf(n - 1), e \in GrowEvents }

\* The stores the first update finds: empty, holding a record of this session
\* or of another one, or a file that cannot be written
GrowStores ==
    { ListDoc(<< >>),
      ListDoc(<< Stored(SESSION, 0, << "a", " ", "d" >>, << FA, SP, "7" >>) >>),
      ListDoc(<< Stored(PRIOR_SESSION, 0, << "a", " ", "d" >>, << FA, SP, "7" >>) >>),
      DamagedDoc("unreadable") }

InitGrow ==
    /\ Idle("grow")
    /\ writers = NoWriters
    /\ index_doc \in GrowStores

\* Events are appended to the session's memory file and
\* update_index_for_session is called on it
GrowAndUpdate ==
    /\ pc = "grow"
    /\ \E appended \in AppendedOf(MaxEvents - Len(memory)) \ { << >> } :
          LET done == update_index_for_session(Transcript(memory \o appended), SESSION, index_doc)
          IN  /\ memory' = memory \o appended
              /\ index_doc' = done.doc
              /\ call' = [op |-> "update_index_for_session",
                          args |-> << Transcript(memory \o appended), SESSION, index_doc >>,
                          result |-> _parse_session_memory(Transcript(memory \o appended), SESSION),
                          raised |-> FALSE]
    /\ UNCHANGED << pc, user_input, user_input_override, step, lifelines_left,
                    further_processing_uses, plan, result, content, final_answer, returned,
                    how, calls, last_update, updates, writers >>

NextGrow == GrowAndUpdate

SpecGrow == InitGrow /\ [][NextGrow]_vars

(***************************************************************************)
(* Claims                                                                  *)
(***************************************************************************)

\* C1: when every collaborator call returns, run starts at most max_steps
\* steps, makes at most max_lifelines_per_step + 1 planner calls in a step,
\* and ends by returning status done.
C1_BoundedAndTerminates ==
    /\ [](calls.steps <= max_steps /\ calls.planner <= max_lifelines_per_step + 1)
    /\ <>(pc = "done" /\ returned = "done")

\* C1 witness: a run that used every step and every lifeline of its last step
C1_BudgetsUsedUp ==
    /\ pc = "done"
    /\ how = "max_steps"
    /\ calls.steps = max_steps
    /\ calls.planner = max_lifelines_per_step + 1

\* A step of run in which the sandbox returned FURTHER_PROCESSING_REQUIRED
SandboxReturnedFPR == pc = "sandbox" /\ pc' # "raised" /\ startswith(result', FPR)

\* C2: each FURTHER_PROCESSING_REQUIRED result counts one use; up to
\* max_steps - 1 uses the content is forwarded (the override is composed and
\* the step is left), beyond that the summarizer finalizes with
\* FINAL_ANSWER: + summary; no step beyond max_steps is started.
C2_FprBudget ==
    /\ [][SandboxReturnedFPR =>
            /\ further_processing_uses' = further_processing_uses + 1
            /\ IF further_processing_uses' <= max_steps - 1
               THEN /\ user_input_override' = override_prompt(user_input, fpr_content(result'))
                    /\ pc' = "for"
                    /\ returned' = ""
               ELSE /\ pc' = "summarize"
                    /\ content' = fpr_content(result')]_vars
    /\ [][(pc = "summarize") =>
            /\ pc' = "done"
            /\ returned' = "done"
            /\ \E completion \in Summaries \cup {NoneText} :
                  final_answer' = << FA, SP >> \o _finalize_from_content(content, completion)]_vars
    /\ [](further_processing_uses > max_steps - 1 => pc \in {"summarize", "done"})
    /\ [](calls.steps <= max_steps /\ step < max_steps)

\* C2 witness: forwarded on every step but the last, summarized on the last
C2_SummarizedOnLastStep ==
    /\ pc = "done"
    /\ how = "summarizer"
    /\ step = max_steps - 1
    /\ further_processing_uses = max_steps
    /\ final_answer = << FA, SP, "Paris" >>

\* C3 (as claimed): a plan that holds the solve signature is never anywhere
\* but at the sandbox.
C3_SolveAlwaysDispatched ==
    (plan # NoneText /\ has_solve(plan)) => pc \in {"sandbox", "raised"}

\* An iteration that ended with an invalid plan or a sandbox error
IterationFailed ==
    \/ pc = "plan" /\ ~is_direct_answer(plan') /\ ~has_solve(plan')
    \/ pc = "sandbox" /\ pc' # "raised" /\ startswith(result', ERR)

\* C4 (as claimed): lifelines_left is max_lifelines_per_step when a step
\* starts, stays in -1..max_lifelines_per_step, goes down by one in an
\* iteration that ends with an invalid plan or a sandbox error and is unchanged
\* by every other iteration; the inner loop is left when it is negative.
C4_LifelinesOnlyOnInvalidOrError ==
    /\ [](lifelines_left \in -1..max_lifelines_per_step)
    /\ [][(pc = "for" /\ pc' # "done") => lifelines_left' = max_lifelines_per_step]_vars
    /\ [][(pc \in {"perceive", "plan", "sandbox", "summarize"}) =>
            (/\ lifelines_left' = IF IterationFailed THEN lifelines_left - 1 ELSE lifelines_left
             /\ (lifelines_left' < 0 => pc' = "for"))]_vars

\* The paraphrase lookup of the task at the configured threshold
CacheLookup == find_best_cached_answer(user_input, jaccard_similarity_threshold, index_doc)

\* C5: on a cache hit run returns the cached text, with no call made, nothing
\* recorded in the session memory and the index document as it was.
C5_CacheHitFrame ==
    [][(pc = "start" /\ CacheLookup # NoneText) =>
          /\ pc' = "done"
          /\ returned' = "done"
          /\ final_answer' = CacheLookup
          /\ memory' = memory
          /\ index_doc' = index_doc
          /\ calls' = NoCalls]_vars

\* C5 witness: run returned the cached answer of the earlier session
C5_ReturnedFromCache ==
    /\ pc = "done"
    /\ how = "cache"
    /\ final_answer = << FA, SP, "Paris" >>

\* C6 (as claimed): no exception leaves run.
C6_RunNeverRaises == pc # "raised"

\* C7: when the completion call raises, generate_plan gives
\* FINAL_ANSWER: [unknown] and run returns it in that iteration without a
\* sandbox call.
C7_PlannerFailureIsFinal ==
    [][(pc = "plan" /\ plan' = generate_plan(NoneText)) =>
          /\ pc' = "done"
          /\ returned' = "done"
          /\ final_answer' = << FA, SP, "[unknown]" >>
          /\ calls'.sandbox = calls.sandbox]_vars

\* C7 witness: run ended on the planner's failure
C7_EndedUnknown ==
    /\ pc = "done"
    /\ how = "direct"
    /\ plan = UNKNOWN_ANSWER
    /\ final_answer = << FA, SP, "[unknown]" >>

\* The junk patterns of the specification
SpecJunkPatterns == {"could not generate", "max steps reached", "unknown", "unexpected"}

\* C8 (as claimed): no stored final_answer holds a junk pattern, whatever its
\* case, and each begins with FINAL_ANSWER:.
C8_NoJunkStored ==
    index_doc.kind = "list" =>
        \A i \in 1..Len(index_doc.items) :
            /\ startswith(index_doc.items[i].final_answer, FA)
            /\ \A bad \in SpecJunkPatterns :
                  ~has_substring(lower(index_doc.items[i].final_answer), bad)

\* C9 (as claimed): an update leaves a document that cannot be read or parsed
\* as it is and writes nothing.
C9_DamagedDocumentUntouched ==
    [][(index_doc.kind \in {"unreadable", "invalid_json", "not_a_list"}) =>
          /\ index_doc' = index_doc
          /\ ~last_update'.saved]_vars

NoDuplicateKeys(items) ==
    \A i, j \in 1..Len(items) : Key(items[i]) = Key(items[j]) => i = j

\* C10: an update that repeats the transcript and session_id of the update
\* before it leaves the document as it is, without writing it, and the
\* document holds no key twice.
C10_RepeatedUpdateIsNoOp ==
    [][(updates' = updates + 1 /\ last_update'.repeat) =>
          /\ index_doc' = index_doc
          /\ ~last_update'.saved
          /\ NoDuplicateKeys(index_doc'.items)]_vars

\* C10 witness: the repeated update of a transcript whose turns are all stored
C10_RepeatedAfterAppend ==
    /\ last_update.repeat
    /\ _parse_session_memory(last_update.memory, last_update.session_id) # << >>
    /\ index_doc.kind = "list"
    /\ Len(index_doc.items) = 2

\* C11: after any series of updates, with any transcripts and session ids,
\* no two records of the document have the same (session_id, turn_index).
C11_UniqueKeys ==
    index_doc.kind = "list" => NoDuplicateKeys(index_doc.items)

\* C11 witness: the last update found one of its keys stored already, skipped
\* it and appended another
C11_SkippedStoredKey ==
    /\ index_doc.kind = "list"
    /\ Len(index_doc.items) >= 2
    /\ last_update.saved
    /\ last_update.added > 0
    /\ last_update.added <
          Len(_parse_session_memory(last_update.memory, last_update.session_id))

\* C12: an update of a document that loads as a list keeps every record it
\* held, unchanged and at its position; new records come only after them.
C12_AppendOnly ==
    [][(index_doc.kind = "list") =>
          /\ index_doc'.kind = "list"
          /\ Len(index_doc'.items) >= Len(index_doc.items)
          /\ SubSeq(index_doc'.items, 1, Len(index_doc.items)) = index_doc.items]_vars

\* C12 witness: an update appended records to a document that held some
C12_AppendedAfterOthers ==
    /\ index_doc.kind = "list"
    /\ last_update.saved
    /\ last_update.added > 0
    /\ last_update.added < Len(index_doc.items)

\* C13 (as claimed): on a document that is missing, unreadable, not valid
\* JSON, not a list, or a list whose entries are no well-formed records,
\* load_similar_examples gives the empty list and find_best_cached_answer gives
\* none; neither raises.
C13_RetrievalNeverRaises ==
    /\ ~call.raised
    /\ (/\ call.op \in {"find_best_cached_answer", "load_similar_examples"}
        /\ \/ index_doc.kind # "list"
           \/ \A i \in 1..Len(index_doc.items) :
                 \/ ~is_dict(index_doc.items[i])
                 \/ ~is_str(index_doc.items[i].user_query)
                 \/ ~is_str(index_doc.items[i].final_answer))
       => call.result = (IF call.op = "load_similar_examples" THEN << >> ELSE NoneText)

\* An entry whose answer the paraphrase lookup can return
answerable(item) ==
    /\ is_dict(item)
    /\ is_str(item.user_query)
    /\ is_str(item.final_answer)
    /\ startswith(item.final_answer, FA)

\* C14 (as claimed): find_best_cached_answer gives none on an empty store and
\* when no record with a FINAL_ANSWER: answer scores min_similarity or more;
\* when the query is identical to the stored query of such a record it gives
\* that record's final_answer as stored, for every threshold in (0, 1.0].
C14_BestCachedAnswer ==
    (call.op = "find_best_cached_answer" /\ ~call.raised) =>
        LET user_query == call.args[1]
            min_similarity == call.args[2]
            index == _load_index(index_doc)
        IN  /\ index = << >> => call.result = NoneText
            /\ (\A i \in 1..Len(index) :
                   ~(/\ answerable(index[i])
                     /\ FracGe(_string_similarity(user_query, index[i].user_query),
                               << min_similarity, 100 >>)))
                 => call.result = NoneText
            /\ \A i \in 1..Len(index) :
                  (answerable(index[i]) /\ index[i].user_query = user_query)
                     => call.result = index[i].final_answer

\* The answer is the last event of the session memory, and the index was
\* updated from that memory once more
RecordedAndIndexed(answer) ==
    /\ Len(memory') = Len(memory) + 1
    /\ SubSeq(memory', 1, Len(memory)) = memory
    /\ memory'[Len(memory')].type = "final_answer"
    /\ memory'[Len(memory')].text = answer
    /\ calls'.index_update = calls.index_update + 1
    /\ index_doc' = update_index_for_session(Transcript(memory'), SESSION, index_doc).doc

\* C15: a plan that starts with FINAL_ANSWER: or FURTHER_PROCESSING_REQUIRED:
\* and holds no solve signature ends the run in that iteration: it is the
\* final answer, it is recorded, the index is updated, the sandbox is not
\* called and no call follows (FINAL_ANSWER: 42 on the first iteration is the
\* final answer after one perception and one planner call).
C15_DirectAnswerEndsRun ==
    /\ [][(/\ pc = "plan"
           /\ startswith(plan', FA) \/ startswith(plan', FPR)
           /\ ~has_solve(plan')) =>
            (/\ pc' = "done"
             /\ returned' = "done"
             /\ final_answer' = plan'
             /\ RecordedAndIndexed(plan')
             /\ calls'.sandbox = calls.sandbox
             /\ calls'.perception = calls.perception
             /\ calls'.planner = calls.planner + 1)]_vars
    /\ [][(pc = "plan" /\ calls.steps = 1 /\ calls.planner = 0 /\ plan' = << FA, SP, "42" >>) =>
            (/\ final_answer' = << FA, SP, "42" >>
             /\ calls'.perception = 1
             /\ calls'.planner = 1
             /\ calls'.sandbox = 0)]_vars
    /\ [][(pc = "done") => FALSE]_vars

\* C15 witness: FINAL_ANSWER: 42 from the planner on the first iteration
C15_FortyTwoAfterOneIteration ==
    /\ pc = "done"
    /\ how = "direct"
    /\ plan = << FA, SP, "42" >>
    /\ final_answer = << FA, SP, "42" >>
    /\ calls.steps = 1
    /\ calls.perception = 1
    /\ calls.planner = 1
    /\ calls.sandbox = 0
    /\ calls.index_update = 1

\* C16: when the last of the max_steps steps is left without an answer, run
\* sets the final answer to FINAL_ANSWER: [Max steps reached], records it,
\* updates the index once and returns done.
C16_MaxStepsReached ==
    /\ [][(pc = "for" /\ step + 1 >= max_steps) =>
            (/\ pc' = "done"
             /\ returned' = "done"
             /\ final_answer' = << FA, SP, "[Max steps reached]" >>
             /\ RecordedAndIndexed(<< FA, SP, "[Max steps reached]" >>))]_vars
    /\ []((pc = "done" /\ how = "max_steps") =>
            (/\ calls.steps = max_steps
             /\ calls.index_update = 1
             /\ returned = "done"
             /\ final_answer = << FA, SP, "[Max steps reached]" >>))

\* C16 witness: the steps were used up by a step without tools, or by retries,
\* and by a step that forwarded content
C16_EndedAfterForwarding ==
    /\ pc = "done"
    /\ how = "max_steps"
    /\ user_input_override # NoneText
    /\ further_processing_uses < max_steps
    /\ calls.index_update = 1
    /\ memory[Len(memory)].text = << FA, SP, "[Max steps reached]" >>

\* The entries load_similar_examples may return for the query, and their score
eligible(item, user_query) ==
    /\ answerable(item)
    /\ strip(item.final_answer) # << FA, SP, "[Could not generate valid solve()]" >>
    /\ FracGt(_jaccard_similarity(_normalize_text(user_query), keywords_of(item)), << 0, 1 >>)

score(item, user_query) == _jaccard_similarity(_normalize_text(user_query), keywords_of(item))

\* C17: load_similar_examples(query, k) returns at most k records of the
\* store, each with Jaccard similarity above zero and an answer other than the
\* placeholder, in order of non-increasing similarity, records of equal
\* similarity in store order; no eligible record left out scores higher than a
\* returned one, and none is left out while fewer than k are returned.
C17_TopKSimilar ==
    (call.op = "load_similar_examples" /\ ~call.raised) =>
        LET user_query == call.args[1]
            top_k == call.args[2]
            index == _load_index(index_doc)
            found == call.result
            at(r) == CHOOSE n \in 1..Len(index) : index[n] = r
            left_out == { n \in 1..Len(index) :
                            /\ eligible(index[n], user_query)
                            /\ \A i \in 1..Len(found) : found[i] # index[n] }
        IN  /\ Len(found) <= top_k
            /\ \A i \in 1..Len(found) :
                  /\ \E n \in 1..Len(index) : index[n] = found[i]
                  /\ eligible(found[i], user_query)
            /\ \A i, j \in 1..Len(found) :
                  i < j =>
                     /\ FracGe(score(found[i], user_query), score(found[j], user_query))
                     /\ FracGe(score(found[j], user_query), score(found[i], user_query))
                           => at(found[i]) < at(found[j])
            /\ \A n \in left_out :
                  /\ Len(found) = top_k
                  /\ \A i \in 1..Len(found) :
                        ~FracGt(score(index[n], user_query), score(found[i], user_query))

\* C17 witness: of three eligible records the second and third score the same
\* and more than the first; with k = 2 they are returned in store order
C17_TieKeptInStoreOrder ==
    /\ call.op = "load_similar_examples"
    /\ ~call.raised
    /\ call.args[2] = 2
    /\ index_doc.kind = "list"
    /\ Len(index_doc.items) = 3
    /\ \A n \in 1..3 : eligible(index_doc.items[n], call.args[1])
    /\ call.result = << index_doc.items[2], index_doc.items[3] >>
    /\ score(index_doc.items[2], call.args[1]) = score(index_doc.items[3], call.args[1])

\* Equal fractions
FracEq(p, q) == p[1] * q[2] = q[1] * p[2]

Reversed(xs) == [i \in 1..Len(xs) |-> xs[Len(xs) + 1 - i]]

TokenSet(xs) == { xs[i] : i \in 1..Len(xs) }

\* C18: _jaccard_similarity(A, B) lies in [0, 1], is 1 when A and B have the
\* same nonempty token set, is 0 when A or B is empty, is symmetric, and does
\* not change with duplicates or order in A or B.
C18_JaccardLaws ==
    (call.op = "_jaccard_similarity") =>
        LET a == call.args[1]
            b == call.args[2]
            sim == call.result
        IN  /\ sim[2] > 0
            /\ 0 <= sim[1]
            /\ sim[1] <= sim[2]
            /\ (TokenSet(a) = TokenSet(b) /\ TokenSet(a) # {}) => sim[1] = sim[2]
            /\ (a = << >> \/ b = << >>) => sim[1] = 0
            /\ FracEq(sim, _jaccard_similarity(b, a))
            /\ FracEq(sim, _jaccard_similarity(a \o a, b))
            /\ FracEq(sim, _jaccard_similarity(a, b \o b))
            /\ FracEq(sim, _jaccard_similarity(Reversed(a), b))
            /\ FracEq(sim, _jaccard_similarity(a, Reversed(b)))
            /\ FracEq(sim, _jaccard_similarity(unique(a), unique(b)))

\* C18 witness: lists with a duplicate and in another order, of the same
\* token set, score 1
C18_SameSetScoresOne ==
    /\ call.op = "_jaccard_similarity"
    /\ call.args[1] = << << "b" >>, << "c" >>, << "b" >> >>
    /\ call.args[2] = << << "c" >>, << "b" >> >>
    /\ call.result[1] = call.result[2]

\* The words of a text: the pieces between whitespace, joined
RECURSIVE Words(_)
Words(s) ==
    IF s = << >> THEN << >>
    ELSE IF IsSpace(Head(s)) THEN Words(Tail(s))
    ELSE LET n == CHOOSE k \in 1..Len(s) : (k = Len(s) \/ IsSpace(s[k + 1])) /\ \A j \in 1..k : ~IsSpace(s[j])
         IN  << Slice(s, 1, n) >> \o Words(Slice(s, n + 1, Len(s)))

\* The answer of the first check of the fixed order that matches a trimmed text,
\* NoneText when none does
FirstMatch(text) ==
    LET checks == << << Len(Words(text)) < 3, TOO_SHORT >>,
                     << len(text) > 3000, TOO_LONG >>,
                     << \E d \in BLOCKED_DOMAINS : occurs_in(text, d), PRIVACY >>,
                     << \E pat \in HARMFUL : occurs_in(ignorecase(text), pat), UNSAFE >>,
                     << \E pat \in CONFIDENTIAL : occurs_in(ignorecase(text), pat), LOOKS_SECRET >> >>
        matching == { i \in 1..Len(checks) : checks[i][1] }
    IN  IF matching = {} THEN NoneText
        ELSE checks[CHOOSE i \in matching : \A j \in matching : i <= j][2]

\* C19: apply_query_heuristics looks for too-short (< 3 words), too-long
\* (> 3000 characters), blocked domain, harmful command and confidential
\* pattern in this order and the first check that matches decides the
\* rejection; an input of fewer than 3 words is rejected whatever else it
\* holds; an input that matches no check is accepted with its trimmed text.
C19_FirstMatchDecides ==
    (call.op = "apply_query_heuristics") =>
        LET text == strip(call.args[1])
            first == FirstMatch(text)
        IN  /\ first # NoneText => (~call.result.allowed /\ call.result.text = first)
            /\ Len(Words(call.args[1])) < 3 => ~call.result.allowed
            /\ first = NoneText => (call.result.allowed /\ call.result.text = text)

\* C19 witness: two words, a blocked domain and a confidential word among
\* them, are turned down as too short
C19_TooShortBeforeDomain ==
    /\ call.op = "apply_query_heuristics"
    /\ call.args[1] = << NL, SP, "gmail.com", SP, "password", NL, SP >>
    /\ call.result = HeuristicResult(FALSE, TOO_SHORT)

WritersDone == pc = "writers" /\ \A session_id \in Sessions : writers[session_id].pc = "done"

\* A record this writer wrote is not in the document
LostRecordOf(session_id) ==
    /\ writers[session_id].saved
    /\ \E i \in 1..Len(writers[session_id].appended) :
          \A n \in 1..Len(_load_index(index_doc)) :
             _load_index(index_doc)[n] # writers[session_id].appended[i]

\* C20: two sessions in update_index_for_session on one document: read, append
\* and write are not one step, so the records one writer wrote are missing
\* from the final document exactly when the other writer wrote a list it had
\* read before them, and there is an interleaving where this happens.
C20_LostWhenOverwritten ==
    WritersDone =>
        \A session_id, other \in Sessions :
            (session_id # other) =>
                (LostRecordOf(session_id) <=>
                    (writers[session_id].saved /\ writers[other].saved /\ writers[other].stale))

\* C20 witness: both writers are done, each wrote the document, and a record
\* the first wrote is not in it
C20_LostUpdate ==
    /\ WritersDone
    /\ writers["s1"].saved
    /\ writers["s2"].saved
    /\ LostRecordOf("s1")

\* A completion with no solve signature and no FINAL_ANSWER: or
\* FURTHER_PROCESSING_REQUIRED: line
Unclassifiable(text) ==
    LET raw == strip_fences(strip(text))
    IN  ~has_solve(raw) /\ ~HasMarkerLine(raw, FA) /\ ~HasMarkerLine(raw, FPR)

\* C21 (as claimed): when the planner's output is unclassifiable the plan is
\* invalid: lifelines_left goes down by one and planning is retried in the
\* same step; the run does not end with an answer.
C21_UnclassifiableIsRetried ==
    [][(pc = "plan" /\ \E c \in Completions : Unclassifiable(c) /\ plan' = generate_plan(c)) =>
          (/\ lifelines_left' = lifelines_left - 1
           /\ step' = step
           /\ pc' # "done"
           /\ returned' = ""
           /\ (lifelines_left' >= 0 => pc' = "perceive"))]_vars

\* part occurs in text as it stands
Embeds(text, part) ==
    \E i \in 1..(Len(text) + 1 - Len(part)) : Slice(text, i, i + Len(part) - 1) = part

\* An override is pending
OverridePending == user_input_override # NoneText

\* C22: a FURTHER_PROCESSING_REQUIRED result within the budget uses up a step
\* and no lifeline: lifelines_left is unchanged, the inner loop is left with
\* no call made, the override holds the task and the produced content, the
\* step that follows starts with max_lifelines_per_step lifelines, and the
\* perception and planner calls made with an override pending get the
\* override as their input.
C22_ForwardUsesAStep ==
    /\ [][(SandboxReturnedFPR /\ further_processing_uses + 1 <= max_steps - 1) =>
            (/\ lifelines_left' = lifelines_left
             /\ step' = step
             /\ pc' = "for"
             /\ call' = call
             /\ user_input_override' = override_prompt(user_input, fpr_content(result'))
             /\ Embeds(user_input_override', user_input)
             /\ Embeds(user_input_override', fpr_content(result')))]_vars
    /\ [][(pc = "for" /\ pc' # "done") =>
            (/\ step' = step + 1
             /\ lifelines_left' = max_lifelines_per_step
             /\ pc' = "perceive"
             /\ call' = call)]_vars
    /\ [][(pc \in {"perceive", "plan"} /\ OverridePending) =>
            (/\ call'.op = IF pc = "perceive" THEN "run_perception" ELSE "generate_plan"
             /\ call'.args = << user_input_override >>
             /\ step' = step)]_vars
    /\ [](OverridePending => (step >= 0 /\ further_processing_uses >= 1))
    /\ []((OverridePending /\ pc \in {"perceive", "plan", "sandbox"}) => step >= 1)

\* C22 witness: the first step forwarded data; the planner of the second step
\* is called with the override and a full lifeline budget
C22_PlannerGotTheOverride ==
    /\ pc = "sandbox"
    /\ step = 1
    /\ further_processing_uses = 1
    /\ lifelines_left = max_lifelines_per_step
    /\ user_input_override = override_prompt(user_input, << "data" >>)
    /\ call.op = "generate_plan"
    /\ call.args = << user_input_override >>

\* C23: when perception selects no tools and no override is pending the step
\* is given up: no planner and no sandbox call is made in the iteration,
\* lifelines_left is unchanged and the next step (or the end of the steps)
\* follows; with an override pending the iteration goes on to planning, tools
\* or none.
C23_NoToolsAbortsStep ==
    /\ [][(pc = "perceive") =>
            (/\ call'.op = "run_perception"
             /\ calls'.perception = calls.perception + 1
             /\ calls'.planner = calls.planner
             /\ calls'.sandbox = calls.sandbox
             /\ lifelines_left' = lifelines_left
             /\ step' = step
             /\ IF call'.result = << FALSE >> /\ ~OverridePending
                THEN pc' = "for"
                ELSE pc' = "plan")]_vars
    /\ [][(pc = "for") =>
            (\/ step' = step + 1 /\ pc' = "perceive" /\ calls' = [calls EXCEPT !.steps = @ + 1, !.planner = 0]
             \/ step + 1 = max_steps /\ pc' = "done")]_vars

\* C23 witness: the first step was given up after one perception call that
\* selected no tools, and the second step has started with every lifeline
C23_SecondStepAfterAbort ==
    /\ pc = "perceive"
    /\ step = 1
    /\ ~OverridePending
    /\ call.op = "run_perception"
    /\ call.result = << FALSE >>
    /\ calls.perception = 1
    /\ calls.sandbox = 0
    /\ lifelines_left = max_lifelines_per_step
    /\ memory = << RunStart(user_input) >>

\* A step of run in which the sandbox returned a string with none of the
\* known prefixes
SandboxReturnedRaw ==
    /\ pc = "sandbox"
    /\ pc' # "raised"
    /\ result' # NonStr
    /\ ~startswith(result', FA)
    /\ ~startswith(result', FPR)
    /\ ~startswith(result', ERR)

\* C24 (as claimed): a sandbox result that is a string with none of the known
\* prefixes is a final answer: the run records success and ends in that
\* iteration with FINAL_ANSWER: and the result, and no lifeline is used.
C24_RawSuccessIsFinal ==
    [][SandboxReturnedRaw =>
          (/\ pc' = "done"
           /\ returned' = "done"
           /\ final_answer' = << FA, SP >> \o result'
           /\ lifelines_left' = lifelines_left
           /\ memory'[Len(memory') - 1].type = "tool_output"
           /\ memory'[Len(memory') - 1].success
           /\ memory'[Len(memory')].text = << FA, SP >> \o result')]_vars

\* Where the first line that starts with the marker has its marker
FirstMarkerAt(s, marker) ==
    CHOOSE j \in 1..Len(s) : MarkerLineAt(s, marker, j) /\ \A m \in 1..(j - 1) : ~MarkerLineAt(s, marker, m)

\* C25 (as claimed): a planner text with no solve signature that holds both a
\* FINAL_ANSWER: line and a FURTHER_PROCESSING_REQUIRED: line is classified by
\* the one that comes first in the text.
C25_FirstMarkerLineDecides ==
    (call.op = "generate_plan") =>
        LET raw == strip_fences(strip(call.args[1]))
        IN  (~has_solve(raw) /\ HasMarkerLine(raw, FA) /\ HasMarkerLine(raw, FPR)) =>
                IF FirstMarkerAt(raw, FA) < FirstMarkerAt(raw, FPR)
                THEN startswith(call.result, FA)
                ELSE startswith(call.result, FPR)

\* The completion call of the summarizer raised
SummarizerFailed == pc = "summarize" /\ call'.args[3] = NoneText

\* C26: when the completion call of the summarizer fails,
\* _finalize_from_content gives the first 2000 characters of the content as
\* they stand, and the run ends with FINAL_ANSWER: and that text, recorded and
\* indexed as any answer is; no exception leaves run.
C26_SummarizerFallback ==
    [][SummarizerFailed =>
          (/\ call'.op = "_finalize_from_content"
           /\ call'.args[2] = content
           /\ len(content) <= 2000 => call'.result = content
           /\ len(content) > 2000 =>
                 (/\ call'.result # << >>
                  /\ \A i \in 1..(Len(call'.result) - 1) : call'.result[i] = content[i]
                  /\ len(SubSeq(content, 1, Len(call'.result) - 1)) < 2000
                  /\ len(SubSeq(content, 1, Len(call'.result))) > 2000
                  /\ call'.result[Len(call'.result)] =
                         cut(content[Len(call'.result)],
                             2000 - len(SubSeq(content, 1, Len(call'.result) - 1))))
           /\ final_answer' = << FA, SP >> \o call'.result
           /\ pc' = "done"
           /\ returned' = "done"
           /\ RecordedAndIndexed(final_answer'))]_vars

\* C26 witness: the summarizer failed on a content of 2999 characters and the
\* run ended with the first 2000 of them
C26_EndedWithCutContent ==
    /\ pc = "done"
    /\ how = "summarizer"
    /\ content = << FILLER, SP, "tail" >>
    /\ call.args[3] = NoneText
    /\ final_answer = << FA, SP, cut(FILLER, 2000) >>
    /\ memory[Len(memory)].text = final_answer

\* A run-start event: its text holds the marker and a query after it
IsRunStart(e) ==
    e.type = "run_metadata" /\ contains(e.text, MARKER) /\ _extract_user_query(e.text) # NoneText

\* The last event of the turn that starts at i: the one before the next
\* run-start event, or the last of the transcript
TurnEnd(events, i) ==
    IF \E k \in (i + 1)..Len(events) : IsRunStart(events[k])
    THEN (CHOOSE k \in (i + 1)..Len(events) :
             IsRunStart(events[k]) /\ \A m \in (i + 1)..(k - 1) : ~IsRunStart(events[m])) - 1
    ELSE Len(events)

\* The tool outputs of the turn that hold a well-formed answer
AnswersOf(events, i) ==
    { k \in (i + 1)..TurnEnd(events, i) :
         events[k].type = "tool_output" /\ _extract_final_answer(events[k]) # NoneText }

\* The answer of the turn: the last of them
TurnAnswer(events, i) ==
    _extract_final_answer(events[CHOOSE k \in AnswersOf(events, i) : \A m \in AnswersOf(events, i) : m <= k])

\* The turns that are kept: an answer exists and is not junk
KeptTurns(events) ==
    { i \in 1..Len(events) :
         /\ IsRunStart(events[i])
         /\ AnswersOf(events, i) # {}
         /\ _should_index_final_answer(TurnAnswer(events, i)) }

\* The names of the tools of the turn, every occurrence
ToolNames(events, i, successful) ==
    LET at == { k \in (i + 1)..TurnEnd(events, i) :
                   /\ events[k].type = "tool_output"
                   /\ events[k].tool_name # ""
                   /\ successful => events[k].success }
    IN  { events[k].tool_name : k \in at }

NoRepeats(xs) == \A a, b \in 1..Len(xs) : xs[a] = xs[b] => a = b

\* C27 (as claimed): each run-start event gets all events up to the next
\* run-start event or the end of the transcript; the answer of the turn is
\* the last well-formed FINAL_ANSWER: string among them, the final_answer
\* field before the nested result; a turn is dropped exactly when it has no
\* such answer or the answer is junk; tools_used and successful_tools have no
\* duplicates, and successful_tools holds only tools of tools_used.
C27_TurnsAndAnswers ==
    (call.op = "_parse_session_memory") =>
        LET events == call.args[1].events
            examples == call.result
            kept == KeptTurns(events)
            start(n) == CHOOSE i \in kept : Cardinality({ m \in kept : m < i }) = n - 1
        IN  /\ Len(examples) = Cardinality(kept)
            /\ \A n \in 1..Len(examples) :
                  /\ n <= Cardinality(kept)
                  /\ examples[n].turn_index = n - 1
                  /\ examples[n].user_query = _extract_user_query(events[start(n)].text)
                  /\ examples[n].final_answer = TurnAnswer(events, start(n))
                  /\ TokenSet(examples[n].tools_used) = ToolNames(events, start(n), FALSE)
                  /\ TokenSet(examples[n].successful_tools) = ToolNames(events, start(n), TRUE)
                  /\ NoRepeats(examples[n].tools_used)
                  /\ NoRepeats(examples[n].successful_tools)
                  /\ TokenSet(examples[n].successful_tools) \subseteq TokenSet(examples[n].tools_used)

\* C28 (as claimed): whatever way run returns (cache hit, direct planner
\* answer, sandbox answer, forced summarization, steps used up), the status
\* is done and the final answer begins with FINAL_ANSWER:.
C28_EveryAnswerIsMarked ==
    (pc = "done") => (returned = "done" /\ startswith(final_answer, FA))

\* C29: further_processing_uses grows by one at a time and at most once in a
\* step, so further_processing_uses <= step + 1 <= max_steps always; the
\* summarizer is reached only in the last step (index max_steps - 1) and only
\* with one use counted in every step so far, that is, after every earlier
\* step forwarded; in any other run a FURTHER_PROCESSING_REQUIRED result of
\* the last step is forwarded and the run ends with
\* FINAL_ANSWER: [Max steps reached].
C29_OneUseAStep ==
    /\ [](further_processing_uses <= step + 1 /\ step + 1 <= max_steps)
    /\ [][(further_processing_uses' # further_processing_uses) =>
            /\ further_processing_uses' = further_processing_uses + 1
            /\ pc = "sandbox"
            /\ step' = step
            /\ pc' \in {"for", "summarize"}]_vars
    /\ []((pc = "summarize") =>
            (step = max_steps - 1 /\ further_processing_uses = max_steps))
    /\ [][(SandboxReturnedFPR /\ step = max_steps - 1
             /\ further_processing_uses < max_steps - 1) =>
            /\ user_input_override' = override_prompt(user_input, fpr_content(result'))
            /\ pc' = "for"]_vars
    /\ [][(pc = "for" /\ step = max_steps - 1) =>
            /\ pc' = "done"
            /\ returned' = "done"
            /\ final_answer' = << FA, SP, "[Max steps reached]" >>]_vars

\* C29 witness: the first two steps were given up without tools, the last
\* step's sandbox result asked for further processing and was forwarded, and
\* the run ended with the steps used up
C29_ForwardedInLastStep ==
    /\ pc = "done"
    /\ how = "max_steps"
    /\ step = max_steps - 1
    /\ further_processing_uses = 1
    /\ calls.perception = max_steps
    /\ calls.sandbox = 1
    /\ startswith(result, FPR)
    /\ user_input_override = override_prompt(user_input, fpr_content(result))
    /\ final_answer = << FA, SP, "[Max steps reached]" >>

\* C30: an override set by a forward is never cleared while the run lasts;
\* it changes only when a forward composes a new one, from the task as first
\* given and the content of the latest result, with nothing of the override
\* before it; every perception and planner call made after that gets the
\* override as its input, and no step after that is given up for lack of
\* selected tools.
C30_OverrideStays ==
    /\ [][OverridePending => user_input_override' # NoneText]_vars
    /\ [][user_input' = user_input]_vars
    /\ [][(user_input_override' # user_input_override) =>
            /\ SandboxReturnedFPR
            /\ pc' = "for"
            /\ user_input_override' = override_prompt(user_input, fpr_content(result'))
            /\ Len(user_input_override') = Len(user_input) + Len(fpr_content(result')) + 3
            /\ OverridePending => ~Embeds(user_input_override', user_input_override)]_vars
    /\ [][(pc \in {"perceive", "plan"} /\ OverridePending) =>
            /\ call'.op \in {"run_perception", "generate_plan"}
            /\ call'.args = << user_input_override' >>
            /\ call'.args # << user_input >>]_vars
    /\ [][(pc = "perceive" /\ OverridePending) => pc' = "plan"]_vars

\* C30 witness: two steps forwarded; perception of the third step selected no
\* tools, was called with the override composed from the second content, and
\* the step went on to planning
C30_SecondOverrideInUse ==
    /\ pc = "plan"
    /\ step = 2
    /\ further_processing_uses = 2
    /\ user_input_override = override_prompt(user_input, << "more" >>)
    /\ call.op = "run_perception"
    /\ call.result = << FALSE >>
    /\ call.args = << user_input_override >>

\* The transcript grew by events that begin with a new run start, after an
\* update from the transcript as it was
GrewByARunStart ==
    /\ pc = "grow"
    /\ call.op = "update_index_for_session"
    /\ Len(memory') > Len(memory)
    /\ Slice(memory', 1, Len(memory)) = memory
    /\ IsRunStart(memory'[Len(memory) + 1])

\* C31: when a transcript is extended by events that begin with a new run
\* start, every example mined from the shorter transcript is mined from the
\* longer one with the same turn_index and content, and updating the index
\* from the shorter and then from the longer transcript leaves the store that
\* one update from the longer transcript leaves.
C31_StableUnderGrowth ==
    [][GrewByARunStart =>
        LET shorter == call.args[1]
            longer == call'.args[1]
            store == call.args[3]
            before == _parse_session_memory(shorter, SESSION)
            after == _parse_session_memory(longer, SESSION)
        IN  /\ shorter = Transcript(memory)
            /\ longer = Transcript(memory')
            /\ call.result = before
            /\ call'.result = after
            /\ index_doc = update_index_for_session(shorter, SESSION, store).doc
            /\ Len(before) <= Len(after)
            /\ \A n \in 1..Len(before) :
                  /\ after[n] = before[n]
                  /\ after[n].turn_index = n - 1
            /\ index_doc' = update_index_for_session(longer, SESSION, store).doc]_vars

\* C31 witness: the store was empty, the first turn was mined and stored, the
\* transcript grew by a second turn, and the store holds both turns with
\* indices 0 and 1
C31_SecondTurnAppended ==
    /\ pc = "grow"
    /\ call.op = "update_index_for_session"
    /\ memory = << RunStart(<< "b", " ", "c" >>), ToolOutput(NoneText, << FA, SP, "Paris" >>, TRUE),
                   RunStart(<< "c", " ", "d" >>),
                   Event("tool_output", NoneText, "search", FALSE, << FA, SP, "Rome" >>,
                         << FA, SP, "Paris" >>, << "web" >>) >>
    /\ Len(call.args[3].items) = 1
    /\ Len(index_doc.items) = 2
    /\ index_doc.items[1] = call.args[3].items[1]
    /\ index_doc.items[1].session_id = SESSION
    /\ index_doc.items[1].user_query = << "b", " ", "c" >>
    /\ index_doc.items[1].turn_index = 0
    /\ index_doc.items[2].turn_index = 1
    /\ index_doc.items[2].final_answer = << FA, SP, "Rome" >>

====
